---------------------------- MODULE Spec2Model ----------------------------
(***************************************************************************)
(* A model of the Sparse Distributed Memory kernel of the sensor node      *)
(* (src/hardware/esp32-s3/sensor-node/src/sdm): the Store's write and read *)
(* primitives, its persistence to the SD card, and the Stores the          *)
(* benchmark creates on the same card.                                     *)
(*                                                                         *)
(* Integers keep the widths of the source: counters are int16_t with the   *)
(* clamping the code writes, access counts are uint16_t and wrap, and the  *)
(* `float` arithmetic of read() is IEEE-754 single precision, every        *)
(* operation rounded to nearest-even as the C++ abstract machine does it.  *)
(***************************************************************************)
EXTENDS Integers, Sequences, FiniteSets, TLC

(***************************************************************************)
(* Single-precision floating point.                                        *)
(* A float is <<m, e>> and stands for m * 2^e, where m = 0 (and e = 0) or  *)
(* 2^23 <= |m| < 2^24.  The values the Store computes stay far inside the  *)
(* normal range, so infinities, NaNs and subnormals do not arise.          *)
(***************************************************************************)
Pow2Tab ==
    <<1, 2, 4, 8, 16, 32, 64, 128, 256, 512, 1024, 2048, 4096, 8192, 16384,
      32768, 65536, 131072, 262144, 524288, 1048576, 2097152, 4194304,
      8388608, 16777216, 33554432, 67108864, 134217728, 268435456,
      536870912, 1073741824>>

Pow2(n) == Pow2Tab[n + 1]

\* The number of bits of x >= 0 (0 for 0), found four bits at a time.
NibbleLen == <<1, 2, 2, 3, 3, 3, 3, 4, 4, 4, 4, 4, 4, 4, 4>>

RECURSIVE BitLen(_)
BitLen(x) ==
    IF x = 0 THEN 0
    ELSE IF x < 16 THEN NibbleLen[x]
    ELSE 4 + BitLen(x \div 16)

Abs(x) == IF x < 0 THEN -x ELSE x

Sgn(x) == IF x < 0 THEN -1 ELSE IF x > 0 THEN 1 ELSE 0

FZero == <<0, 0>>

\* Round x * 2^e (x >= 0, its lowest bit possibly a sticky bit) to a float
\* of sign sg: round to nearest, ties to even, to a 24-bit significand.
FRound(sg, x, e) ==
    IF x = 0 THEN FZero
    ELSE LET n == BitLen(x) IN
         IF n <= 24
         THEN <<sg * x * Pow2(24 - n), e - (24 - n)>>
         ELSE LET sh   == n - 24
                  q    == x \div Pow2(sh)
                  r    == x % Pow2(sh)
                  half == Pow2(sh - 1)
                  q2   == IF r > half \/ (r = half /\ q % 2 = 1)
                          THEN q + 1 ELSE q
              IN IF q2 = Pow2(24)
                 THEN <<sg * Pow2(23), e + sh + 1>>
                 ELSE <<sg * q2, e + sh>>

\* The conversion of an integer of at most 24 bits to float (exact).
FromInt(n) == FRound(Sgn(n), Abs(n), 0)

\* OR a sticky bit into the lowest bit of x.
Jam(x, sticky) == IF sticky /\ x % 2 = 0 THEN x + 1 ELSE x

\* a + b, with three extra bits (guard, round, sticky) below the larger
\* operand's significand.
FAdd(a, b) ==
    IF a[1] = 0 THEN b
    ELSE IF b[1] = 0 THEN a
    ELSE LET hi   == IF a[2] >= b[2] THEN a ELSE b
             lo   == IF a[2] >= b[2] THEN b ELSE a
             diff == hi[2] - lo[2]
             A    == Abs(hi[1]) * 8
             Bf   == Abs(lo[1]) * 8
             B    == IF diff >= 28 THEN 1
                     ELSE Jam(Bf \div Pow2(diff), Bf % Pow2(diff) # 0)
             S    == Sgn(hi[1]) * A + Sgn(lo[1]) * B
         IN FRound(Sgn(S), Abs(S), hi[2] - 3)

\* a * b: the 48-bit product of the significands from 12-bit limbs.
FMul(a, b) ==
    IF a[1] = 0 \/ b[1] = 0 THEN FZero
    ELSE LET ma  == Abs(a[1])
             mb  == Abs(b[1])
             a1  == ma \div 4096
             a0  == ma % 4096
             b1  == mb \div 4096
             b0  == mb % 4096
             low == a0 * b0
             mid == a1 * b0 + a0 * b1 + (low \div 4096)
             hi  == a1 * b1 + (mid \div 4096)
             lowbits == (mid % 4096) * 4096 + (low % 4096)
             X   == Jam(hi * 8 + (lowbits \div Pow2(21)),
                        lowbits % Pow2(21) # 0)
         IN FRound(Sgn(a[1]) * Sgn(b[1]), X, a[2] + b[2] + 21)

\* One round of long division: <<q, r>> with r < d < 2^24 becomes
\* <<q * 2^k + floor(r * 2^k / d), (r * 2^k) mod d>>, for k <= 7.
DivStep(qr, d, k) ==
    <<qr[1] * Pow2(k) + ((qr[2] * Pow2(k)) \div d), (qr[2] * Pow2(k)) % d>>

\* a / b for b # 0: 26 quotient bits below the integer part, and the
\* remainder as the sticky bit.
FDiv(a, b) ==
    IF a[1] = 0 THEN FZero
    ELSE LET ma == Abs(a[1])
             mb == Abs(b[1])
             qr == DivStep(DivStep(DivStep(DivStep(
                       <<ma \div mb, ma % mb>>, mb, 7), mb, 7), mb, 6), mb, 6)
         IN FRound(Sgn(a[1]) * Sgn(b[1]), Jam(qr[1], qr[2] # 0),
                   a[2] - b[2] - 26)

FAbs(a) == <<Abs(a[1]), a[2]>>

\* a < b.
FLess(a, b) ==
    IF Sgn(a[1]) # Sgn(b[1]) THEN Sgn(a[1]) < Sgn(b[1])
    ELSE IF a[1] = 0 THEN FALSE
    ELSE IF a[1] > 0
         THEN a[2] < b[2] \/ (a[2] = b[2] /\ a[1] < b[1])
         ELSE a[2] > b[2] \/ (a[2] = b[2] /\ a[1] < b[1])

\* std::max(a, b): (a < b) ? b : a.
FMax(a, b) == IF FLess(a, b) THEN b ELSE a

FOne == FromInt(1)


\* static_cast<uint16_t>(a) for a float a >= 0 below 2^16: truncation.
FToU16(a) ==
    IF a[1] = 0 THEN 0
    ELSE IF a[2] >= 0 THEN a[1] * Pow2(a[2])
    ELSE IF -a[2] >= 24 THEN 0
    ELSE a[1] \div Pow2(-a[2])

(***************************************************************************)
(* The integer types of the Store.                                         *)
(***************************************************************************)
INT16_MAX == 32767
INT16_MIN == -32768
UINT16_MOD == 65536

\* The conversion of an int32_t to int16_t on assignment to a counter.
ToInt16(x) == ((x + 32768) % UINT16_MOD) - 32768

\* A counter as the 16-bit word saveMemoryToSD writes, and back.
ToWord(x) == x % UINT16_MOD
\* FromWord without the sign: the word is taken as the counter's value.
FromWordUnsigned(w) == w
FromWord(w) == IF w >= 32768 THEN w - UINT16_MOD ELSE w

Min(a, b) == IF a < b THEN a ELSE b

RECURSIVE SumSeq(_)
SumSeq(s) == IF s = <<>> THEN 0 ELSE Head(s) + SumSeq(Tail(s))

BitVectors(n) == [1..n -> {0, 1}]

ZeroVector(n) == [j \in 1..n |-> 0]

(***************************************************************************)
(* SDMConfig and SDMStats (sdm.h).  sparsity is a float.                   *)
(***************************************************************************)
MkConfig(d, n, r, s) ==
    [vector_dim |-> d, num_locations |-> n, access_radius |-> r,
     sparsity |-> s]

ZeroStats ==
    [total_writes |-> 0, total_reads |-> 0, last_confidence |-> FZero,
     last_activated_locations |-> 0, avg_match_ratio |-> FZero]

\* A Store as its constructor leaves it: the configuration given, empty
\* vectors, zero statistics.
NewStore(cfg) ==
    [config |-> cfg, addresses |-> <<>>, memory |-> <<>>,
     access_counts |-> <<>>, stats |-> ZeroStats]

\* The matrices have the shape the configuration names.
Shaped(st) ==
    /\ Len(st.addresses) = st.config.num_locations
    /\ Len(st.memory) = st.config.num_locations
    /\ Len(st.access_counts) = st.config.num_locations
    /\ \A i \in 1..Len(st.addresses) :
            Len(st.addresses[i]) = st.config.vector_dim
    /\ \A i \in 1..Len(st.memory) :
            Len(st.memory[i]) = st.config.vector_dim

(***************************************************************************)
(* generateSparseVector: the vectors a shuffle can produce, num_ones ones  *)
(* (at most vector_dim) at distinct positions.                             *)
(***************************************************************************)
NumOnes(cfg) == FToU16(FMul(FromInt(cfg.vector_dim), cfg.sparsity))

SparseVectors(cfg) ==
    {v \in BitVectors(cfg.vector_dim) :
        SumSeq(v) = Min(NumOnes(cfg), cfg.vector_dim)}

hammingDistance(v1, v2) ==
    Cardinality({i \in 1..Min(Len(v1), Len(v2)) : v1[i] # v2[i]})

(***************************************************************************)
(* write                                                                   *)
(***************************************************************************)
\* WriteCounter without the clamp: the sum is converted to int16_t as it is.
WriteCounterWrapping(m, bit, strength) ==
    IF bit = 1 THEN ToInt16(m + strength) ELSE ToInt16(m - strength)

\* WriteCounter with the polarity of the bit inverted.
WriteCounterInverted(m, bit, strength) ==
    IF bit = 1
    THEN (IF m - strength < INT16_MIN THEN INT16_MIN ELSE m - strength)
    ELSE (IF m + strength > INT16_MAX THEN INT16_MAX ELSE m + strength)

\* One counter's update for input bit `bit`.
WriteCounter(m, bit, strength) ==
    IF bit = 1
    THEN LET updated == m + strength
         IN ToInt16(IF updated > INT16_MAX THEN INT16_MAX ELSE updated)
    ELSE LET updated == m - strength
         IN ToInt16(IF updated < INT16_MIN THEN INT16_MIN ELSE updated)

\* Activated with the radius taken one too wide.
ActivatedWide(st, x) ==
    {i \in 1..st.config.num_locations :
        hammingDistance(x, st.addresses[i]) <= st.config.access_radius + 1}

\* The locations write and read visit that lie within the access radius.
Activated(st, x) ==
    {i \in 1..st.config.num_locations :
        hammingDistance(x, st.addresses[i]) <= st.config.access_radius}

\* The body of write() past its length check: the Store afterwards and
\* the value returned.
WriteAccepted(st, input_vector, strength) ==
    LET act == Activated(st, input_vector)
        activated_locations == Cardinality(act)
    IN [st |->
          [st EXCEPT
             !.access_counts =
                 [i \in 1..Len(st.access_counts) |->
                     IF i \in act
                     THEN (st.access_counts[i] + 1) % UINT16_MOD
                     ELSE st.access_counts[i]],
             !.memory =
                 [i \in 1..Len(st.memory) |->
                     IF i \in act
                     THEN [j \in 1..Len(st.memory[i]) |->
                             IF j <= st.config.vector_dim
                             THEN WriteCounter(st.memory[i][j],
                                      input_vector[j], strength)
                             ELSE st.memory[i][j]]
                     ELSE st.memory[i]],
             !.stats.total_writes = @ + 1,
             !.stats.last_activated_locations = activated_locations],
        ret |-> activated_locations]

\* write() counting a rejected write in the statistics.
SDMWriteCounted(st, input_vector, strength) ==
    IF Len(input_vector) # st.config.vector_dim
    THEN [st |-> [st EXCEPT !.stats.total_writes = @ + 1], ret |-> 0]
    ELSE WriteAccepted(st, input_vector, strength)

\* write(input_vector, strength): the Store afterwards and the value
\* returned.
SDMWrite(st, input_vector, strength) ==
    IF Len(input_vector) # st.config.vector_dim
    THEN [st |-> st, ret |-> 0]
    ELSE WriteAccepted(st, input_vector, strength)

(***************************************************************************)
(* read                                                                    *)
(***************************************************************************)
\* The set s of location indices as the sequence the read loop builds:
\* in increasing order.
RECURSIVE Ascending(_)
Ascending(s) ==
    IF s = {} THEN <<>>
    ELSE LET lo == CHOOSE i \in s : \A k \in s : i <= k
         IN <<lo>> \o Ascending(s \ {lo})

\* float weight = 1.0f / (1.0f + distances[i])
Weight(dist) == FDiv(FOne, FAdd(FOne, FromInt(dist)))

\* acc += terms[1]; acc += terms[2]; ... in float.
RECURSIVE Accumulate(_, _)
Accumulate(acc, terms) ==
    IF terms = <<>> THEN acc
    ELSE Accumulate(FAdd(acc, Head(terms)), Tail(terms))

\* The sums of read() over the activated locations `activated_indices`
\* (in order) with the weights `weights`: total[j] for every bit, and
\* total_weight.
Totals(st, activated_indices, weights) ==
    [j \in 1..st.config.vector_dim |->
        Accumulate(FZero,
            [k \in 1..Len(activated_indices) |->
                FMul(weights[k],
                     FromInt(st.memory[activated_indices[k]][j]))])]

\* max_confidence over normalized values nv[1..j].
RECURSIVE MaxConfidence(_, _)
MaxConfidence(nv, j) ==
    IF j = 0 THEN FZero
    ELSE FMax(MaxConfidence(nv, j - 1), FAbs(nv[j]))

\* The vector and the confidence read() computes for a query of the right
\* length, and whether any location was activated.
Recall(st, query_vector) ==
    LET activated_indices == Ascending(Activated(st, query_vector))
    IN IF activated_indices = <<>>
       THEN [found |-> FALSE, out |-> ZeroVector(st.config.vector_dim),
             conf |-> FZero]
       ELSE LET weights ==
                    [k \in 1..Len(activated_indices) |->
                       Weight(hammingDistance(query_vector,
                           st.addresses[activated_indices[k]]))]
                total == Totals(st, activated_indices, weights)
                total_weight == Accumulate(FZero, weights)
                normalized_value ==
                    [j \in 1..st.config.vector_dim |->
                       FDiv(total[j], total_weight)]
            IN [found |-> TRUE,
                out |-> [j \in 1..st.config.vector_dim |->
                           IF normalized_value[j][1] > 0 THEN 1 ELSE 0],
                conf |-> MaxConfidence(normalized_value,
                                       st.config.vector_dim)]

\* read() clearing the counters of the locations it has read.
SDMReadClearing(st, query_vector) ==
    IF Len(query_vector) # st.config.vector_dim
    THEN [st |-> st, out |-> ZeroVector(st.config.vector_dim),
          conf |-> FZero]
    ELSE LET r == Recall(st, query_vector)
         IN [st |-> IF r.found
                    THEN [st EXCEPT
                            !.stats.total_reads = @ + 1,
                            !.stats.last_confidence = r.conf,
                            !.memory =
                                [i \in 1..Len(st.memory) |->
                                    IF i \in Activated(st, query_vector)
                                    THEN ZeroVector(Len(st.memory[i]))
                                    ELSE st.memory[i]]]
                    ELSE st,
             out |-> r.out, conf |-> r.conf]

\* read(query_vector): the Store afterwards, the vector and the confidence
\* returned.  The statistics are updated only when a location answered.
SDMRead(st, query_vector) ==
    IF Len(query_vector) # st.config.vector_dim
    THEN [st |-> st, out |-> ZeroVector(st.config.vector_dim),
          conf |-> FZero]
    ELSE LET r == Recall(st, query_vector)
         IN [st |-> IF r.found
                    THEN [st EXCEPT !.stats.total_reads = @ + 1,
                                    !.stats.last_confidence = r.conf]
                    ELSE st,
             out |-> r.out, conf |-> r.conf]

(***************************************************************************)
(* The SD card.  A file is a record: kind "absent", or its content.  The   *)
(* configuration and statistics files are JSON documents, modelled as      *)
(* functions from the keys present to their values; a configuration file   *)
(* may also exist and fail to open, or hold text that does not parse.      *)
(* The state file is the sequence of the 16-bit words written to it.       *)
(* millis(), which stamps the JSON documents, is not modelled: the         *)
(* timestamp key is present with value 0.                                  *)
(***************************************************************************)
NoDoc == [k \in {} |-> 0]

AbsentFile == [kind |-> "absent", doc |-> NoDoc, words |-> <<>>]

JsonFile(d) == [kind |-> "json", doc |-> d, words |-> <<>>]

DataFile(w) == [kind |-> "data", doc |-> NoDoc, words |-> w]

\* doc[key] | fallback that never takes the document's value.
JsonOrKept(doc, key, fallback) == fallback

\* doc[key] | fallback
JsonOr(doc, key, fallback) ==
    IF key \in DOMAIN doc THEN doc[key] ELSE fallback

\* loadConfig(): the Store afterwards and the flag returned.
loadConfig(st, card) ==
    LET f == card.config_file IN
    IF f.kind # "json"
    THEN [st |-> st, ok |-> FALSE]
    ELSE [st |-> [st EXCEPT
                    !.config.vector_dim =
                        JsonOr(f.doc, "vector_dim", @),
                    !.config.num_locations =
                        JsonOr(f.doc, "num_locations", @),
                    !.config.access_radius =
                        JsonOr(f.doc, "access_radius", @),
                    !.config.sparsity =
                        JsonOr(f.doc, "sparsity", @)],
          ok |-> TRUE]

\* The document saveConfig() serializes.
ConfigDoc(cfg) ==
    [k \in {"vector_dim", "num_locations", "access_radius", "sparsity",
            "timestamp"} |->
        CASE k = "vector_dim" -> cfg.vector_dim
          [] k = "num_locations" -> cfg.num_locations
          [] k = "access_radius" -> cfg.access_radius
          [] k = "sparsity" -> cfg.sparsity
          [] OTHER -> 0]

\* saveConfig(): the card afterwards.
saveConfig(st, card) ==
    [card EXCEPT !.config_file = JsonFile(ConfigDoc(st.config))]

\* The words saveMemoryToSD() writes: the header, the access counts, the
\* counters row by row.
MemoryWords(st) ==
    LET n == st.config.num_locations
        d == st.config.vector_dim
    IN [k \in 1..(2 + n + n * d) |->
          IF k = 1 THEN n
          ELSE IF k = 2 THEN d
          ELSE IF k <= 2 + n THEN st.access_counts[k - 2]
          ELSE LET c == k - 3 - n
               IN ToWord(st.memory[(c \div d) + 1][(c % d) + 1])]

\* saveMemoryToSD(): the card afterwards.
saveMemoryToSD(st, card) ==
    [card EXCEPT !.memory_file = DataFile(MemoryWords(st))]

\* The document saveStatsToSD() serializes.
StatsDoc(stats) ==
    [k \in {"total_writes", "total_reads", "last_confidence",
            "last_activated_locations", "avg_match_ratio", "timestamp"} |->
        CASE k = "total_writes" -> stats.total_writes
          [] k = "total_reads" -> stats.total_reads
          [] k = "last_confidence" -> stats.last_confidence
          [] k = "last_activated_locations" ->
                 stats.last_activated_locations
          [] k = "avg_match_ratio" -> stats.avg_match_ratio
          [] OTHER -> 0]

\* saveStatsToSD(): the card afterwards.
saveStatsToSD(st, card) ==
    [card EXCEPT !.stats_file = JsonFile(StatsDoc(st.stats))]

\* saveToSD(): the three saves, each run whatever the others returned.
saveToSD(st, card) ==
    saveStatsToSD(st, saveMemoryToSD(st, saveConfig(st, card)))

\* file.read() of the k-th word into a variable holding `old`: a read past
\* the end of the file stores nothing.
ReadWord(words, k, old) == IF k <= Len(words) THEN words[k] ELSE old

\* The values an uninitialized header word of loadMemoryFromSD can hold.
\* Only a state file shorter than its header leaves one uninitialized.
MaxJunk == 3

JunkWords(card) ==
    IF card.memory_file.kind = "data" /\ Len(card.memory_file.words) < 2
    THEN 0..MaxJunk
    ELSE {0}

\* loadMemoryFromSD comparing only the number of locations of the header.
loadMemoryFromSDRowsOnly(st, card, junk_locations, junk_dim) ==
    LET f == card.memory_file IN
    IF f.kind # "data"
    THEN [st |-> st, ok |-> FALSE]
    ELSE LET stored_locations == ReadWord(f.words, 1, junk_locations)
             n == st.config.num_locations
             d == st.config.vector_dim
         IN IF stored_locations # n
            THEN [st |-> st, ok |-> FALSE]
            ELSE [st |->
                    [st EXCEPT
                       !.access_counts =
                           [i \in 1..Len(st.access_counts) |->
                               IF i <= n
                               THEN ReadWord(f.words, 2 + i,
                                             st.access_counts[i])
                               ELSE st.access_counts[i]],
                       !.memory =
                           [i \in 1..Len(st.memory) |->
                              [j \in 1..Len(st.memory[i]) |->
                                 IF i <= n /\ j <= d
                                 THEN FromWord(ReadWord(f.words,
                                          2 + n + (i - 1) * d + j,
                                          ToWord(st.memory[i][j])))
                                 ELSE st.memory[i][j]]]],
                  ok |-> TRUE]

\* loadMemoryFromSD(): the Store afterwards and the flag returned.
\* stored_locations and stored_dim are uninitialized locals: when the file
\* is too short to hold them they keep the indeterminate values
\* `junk_locations` and `junk_dim`.
loadMemoryFromSD(st, card, junk_locations, junk_dim) ==
    LET f == card.memory_file IN
    IF f.kind # "data"
    THEN [st |-> st, ok |-> FALSE]
    ELSE LET stored_locations == ReadWord(f.words, 1, junk_locations)
             stored_dim == ReadWord(f.words, 2, junk_dim)
             n == st.config.num_locations
             d == st.config.vector_dim
         IN IF stored_locations # n \/ stored_dim # d
            THEN [st |-> st, ok |-> FALSE]
            ELSE [st |->
                    [st EXCEPT
                       !.access_counts =
                           [i \in 1..Len(st.access_counts) |->
                               IF i <= n
                               THEN ReadWord(f.words, 2 + i,
                                             st.access_counts[i])
                               ELSE st.access_counts[i]],
                       !.memory =
                           [i \in 1..Len(st.memory) |->
                              [j \in 1..Len(st.memory[i]) |->
                                 IF i <= n /\ j <= d
                                 THEN FromWord(ReadWord(f.words,
                                          2 + n + (i - 1) * d + j,
                                          ToWord(st.memory[i][j])))
                                 ELSE st.memory[i][j]]]],
                  ok |-> TRUE]

\* loadFromSD(): both loads run; the flag is their conjunction.
loadFromSD(st, card, junk_locations, junk_dim) ==
    LET c == loadConfig(st, card)
        m == loadMemoryFromSD(c.st, card, junk_locations, junk_dim)
    IN [st |-> m.st, ok |-> c.ok /\ m.ok]

\* The address tables initialize() can sample for a configuration.
AddressTables(cfg) == [1..cfg.num_locations -> SparseVectors(cfg)]

\* initialize(): the configuration is loaded, the matrices are sized and
\* zeroed, `table` is the outcome of the address sampling, and the state
\* file is loaded if it is there and fits.
initialize(st, card, table, junk_locations, junk_dim) ==
    LET c == loadConfig(st, card).st
        n == c.config.num_locations
        d == c.config.vector_dim
        fresh == [c EXCEPT
                    !.addresses = table,
                    !.memory = [i \in 1..n |-> ZeroVector(d)],
                    !.access_counts = ZeroVector(n)]
    IN loadMemoryFromSD(fresh, card, junk_locations, junk_dim).st

(***************************************************************************)
(* The benchmark's test Store (SDMBenchmark::testConfiguration).           *)
(***************************************************************************)
\* The writes of one test pattern: for (i = 0; i < 10; i++) write(v).
ReinforceWrites == 10

\* k writes of the same vector with the same strength.
RECURSIVE Repeat(_, _, _, _)
Repeat(st, v, strength, k) ==
    IF k = 0 THEN st
    ELSE Repeat(SDMWrite(st, v, strength).st, v, strength, k - 1)

\* The test loop over the patterns `tests`: each is written ReinforceWrites
\* times with the default strength 1 and read back.
RECURSIVE RunTests(_, _)
RunTests(st, tests) ==
    IF tests = <<>> THEN st
    ELSE RunTests(SDMRead(Repeat(st, Head(tests), 1, ReinforceWrites),
                          Head(tests)).st,
                  Tail(tests))

(***************************************************************************)
(* The pre-trained libraries (SDMPretrainedLib).  The vectors file of a    *)
(* library is the sequence of its values: num_vectors, vector_dim (each a  *)
(* uint32_t), then the bytes of the vectors.                               *)
(***************************************************************************)
\* The libraries the card can hold.
LibNames == {"common_words", "numbers"}

\* file.read(&vector[j], 1) of the k-th value into a zeroed byte.
ReadByte(words, k) == IF k <= Len(words) THEN words[k] ELSE 0

\* The values the uninitialized num_vectors and vector_dim can hold; only
\* a vectors file shorter than its header leaves one uninitialized.
JunkHeader(card, lib_name) ==
    IF card.lib_files[lib_name].kind = "data"
          /\ Len(card.lib_files[lib_name].words) < 2
    THEN 0..MaxJunk
    ELSE {0}

\* loadPretrainedVectors without the validation of the dimension.
loadPretrainedVectorsUnvalidated(st, card, lib_name, junk_vectors, junk_dim) ==
    LET f == card.lib_files[lib_name] IN
    IF f.kind # "data"
    THEN [ok |-> FALSE, vectors |-> <<>>]
    ELSE LET num_vectors == ReadWord(f.words, 1, junk_vectors)
             vector_dim == ReadWord(f.words, 2, junk_dim)
         IN [ok |-> TRUE,
             vectors |->
                 [i \in 1..num_vectors |->
                     [j \in 1..vector_dim |->
                         ReadByte(f.words,
                                  2 + (i - 1) * vector_dim + j)]]]

\* loadPretrainedVectors(): the flag returned and the vectors read.
loadPretrainedVectors(st, card, lib_name, junk_vectors, junk_dim) ==
    LET f == card.lib_files[lib_name] IN
    IF f.kind # "data"
    THEN [ok |-> FALSE, vectors |-> <<>>]
    ELSE LET num_vectors == ReadWord(f.words, 1, junk_vectors)
             vector_dim == ReadWord(f.words, 2, junk_dim)
         IN IF vector_dim # st.config.vector_dim
            THEN [ok |-> FALSE, vectors |-> <<>>]
            ELSE [ok |-> TRUE,
                  vectors |->
                      [i \in 1..num_vectors |->
                          [j \in 1..vector_dim |->
                              ReadByte(f.words,
                                       2 + (i - 1) * vector_dim + j)]]]

\* One write of each vector in turn, with strength 2.
RECURSIVE WriteEach(_, _)
WriteEach(st, vectors) ==
    IF vectors = <<>> THEN st
    ELSE WriteEach(SDMWrite(st, Head(vectors), 2).st, Tail(vectors))

\* MergeVectors with the loops exchanged: the whole library is written
\* once, `reinforcement` times over.
RECURSIVE MergeVectorsInterleaved(_, _, _)
MergeVectorsInterleaved(st, vectors, reinforcement) ==
    IF reinforcement = 0 THEN st
    ELSE MergeVectorsInterleaved(WriteEach(st, vectors), vectors,
                                 reinforcement - 1)

\* The loops of mergeLibraryIntoSDM: every vector in turn is written
\* `reinforcement` times with strength 2.
RECURSIVE MergeVectors(_, _, _)
MergeVectors(st, vectors, reinforcement) ==
    IF vectors = <<>> THEN st
    ELSE MergeVectors(Repeat(st, Head(vectors), 2, reinforcement),
                      Tail(vectors), reinforcement)

\* mergeLibraryIntoSDM(): the Store afterwards and the flag returned.
mergeLibraryIntoSDM(st, card, lib_name, reinforcement, junk_vectors, junk_dim) ==
    LET l == loadPretrainedVectors(st, card, lib_name, junk_vectors,
                                   junk_dim)
    IN IF ~l.ok THEN [st |-> st, ok |-> FALSE]
       ELSE [st |-> MergeVectors(st, l.vectors, reinforcement),
             ok |-> TRUE]

\* loadPretrainedLib(): the merge with the default reinforcement.
DefaultReinforcement == 3

loadPretrainedLib(st, card, lib_name, junk_vectors, junk_dim) ==
    mergeLibraryIntoSDM(st, card, lib_name, DefaultReinforcement,
                        junk_vectors, junk_dim)

(***************************************************************************)
(* The encoder (SDMEncoder), which reads config.vector_dim of the Store it *)
(* was constructed with.                                                   *)
(***************************************************************************)
\* a - b.
FSub(a, b) == FAdd(a, <<-b[1], b[2]>>)

\* Arduino's constrain(amt, low, high).
Constrain(amt, low, high) ==
    IF FLess(amt, low) THEN low
    ELSE IF FLess(high, amt) THEN high
    ELSE amt

\* encodeFloat(value, min_val, max_val), for min_val < max_val.
encodeFloat(st, value, min_val, max_val) ==
    LET normalized ==
            Constrain(FDiv(FSub(value, min_val), FSub(max_val, min_val)),
                      FZero, FOne)
        position ==
            FToU16(FMul(normalized, FromInt(st.config.vector_dim - 1)))
    IN [i \in 1..st.config.vector_dim |->
           IF i - 1 <= position THEN 1 ELSE 0]

\* The index of the last 1 of `vector` (0 when there is none).
HighestBit(vector) ==
    LET ones == {i \in 1..Len(vector) : vector[i] = 1}
    IN IF ones = {} THEN 0
       ELSE (CHOOSE i \in ones : \A k \in ones : k <= i) - 1

\* decodeFloat(vector, min_val, max_val), for vector_dim >= 2.
decodeFloat(st, vector, min_val, max_val) ==
    LET normalized == FDiv(FromInt(HighestBit(vector)),
                           FromInt(st.config.vector_dim - 1))
    IN FAdd(min_val, FMul(normalized, FSub(max_val, min_val)))

\* The encoder's sequence_length.
sequence_length == 32

\* What 0.0f / 0 evaluates to: not a number.
NaN == <<0, -1>>

\* encodeSequence(sequence): element i owns the bits_per_element bits from
\* i * bits_per_element and sets the first num_bits of them.
encodeSequence(st, sequence) ==
    LET bits_per_element == st.config.vector_dim \div sequence_length
        num_bits(i) ==
            FToU16(FMul(Constrain(FDiv(FAdd(sequence[i + 1], FOne),
                                       FromInt(2)),
                                  FZero, FOne),
                        FromInt(bits_per_element)))
    IN [p \in 1..st.config.vector_dim |->
           IF \E i \in 0..(Min(Len(sequence), sequence_length) - 1) :
                 /\ i * bits_per_element <= p - 1
                 /\ p - 1 < i * bits_per_element + num_bits(i)
           THEN 1 ELSE 0]

\* decodeSequence(vector): sequence_length elements, each from the count
\* of the bits set in its segment.  With bits_per_element = 0 the count is
\* 0 and the quotient 0.0f / 0 is not a number.
decodeSequence(st, vector) ==
    LET bits_per_element == st.config.vector_dim \div sequence_length
        active_bits(i) ==
            Cardinality({j \in 0..(bits_per_element - 1) :
                            /\ i * bits_per_element + j < Len(vector)
                            /\ vector[i * bits_per_element + j + 1] = 1})
    IN [k \in 1..sequence_length |->
           IF bits_per_element = 0 THEN NaN
           ELSE FSub(FMul(FDiv(FromInt(active_bits(k - 1)),
                               FromInt(bits_per_element)),
                          FromInt(2)),
                     FOne)]

(***************************************************************************)
(* The state: the host's Store (the global `sdm` of main.cpp), the SD      *)
(* card, and the last call made with what it returned.                     *)
(***************************************************************************)
VARIABLES sdm, sd, ret

vars == <<sdm, sd, ret>>

\* The record of a call: the operation, its vector and strength arguments,
\* the count, the vector, the confidence and the flag it returned (the
\* fields an operation does not have are zero, empty and FALSE), and
\* whether the call before it was the same operation on the same vector.
Ret(op, vec, strength, count, out, conf, ok) ==
    [op |-> op, vec |-> vec, strength |-> strength, count |-> count,
     out |-> out, conf |-> conf, ok |-> ok,
     again |-> op \in {"write", "read"} /\ ret.op = op /\ ret.vec = vec]

\* The record of the boot that precedes every other call.
Booted ==
    [op |-> "initialize", vec |-> <<>>, strength |-> 0, count |-> 0,
     out |-> <<>>, conf |-> FZero, ok |-> TRUE, again |-> FALSE]

BlankCard ==
    [config_file |-> AbsentFile, memory_file |-> AbsentFile,
     stats_file |-> AbsentFile,
     lib_files |-> [name \in LibNames |-> AbsentFile],
     lib_labels |-> [name \in LibNames |-> AbsentFile],
     lib_info |-> [name \in LibNames |-> AbsentFile],
     benchmark_results_file |-> AbsentFile,
     comprehensive_file |-> AbsentFile,
     optimal_config_file |-> AbsentFile]

\* The Stores the host can hold after `new SparseDistributedMemory(cfg)`
\* and initialize() on the card `card`.
Boot(cfg, card) ==
    {initialize(NewStore(cfg), card, table, jl, jd) :
        table \in AddressTables(loadConfig(NewStore(cfg), card).st.config),
        jl \in JunkWords(card), jd \in JunkWords(card)}

(***************************************************************************)
(* Whether the indexing of a call stays inside the Store's vectors.  The   *)
(* loops of write, read, save and load run to config.num_locations and     *)
(* config.vector_dim, whatever the sizes of the vectors are: an index past *)
(* the end of a vector is undefined behaviour.                             *)
(***************************************************************************)
RowsWithin(st) ==
    /\ st.config.num_locations <= Len(st.addresses)
    /\ st.config.num_locations <= Len(st.memory)
    /\ st.config.num_locations <= Len(st.access_counts)

AllWithin(st) ==
    /\ RowsWithin(st)
    /\ \A i \in 1..st.config.num_locations :
          st.config.vector_dim <= Len(st.memory[i])

\* write(v) and read(v): the rows of the activated locations are indexed.
CallDefined(st, v) ==
    \/ Len(v) # st.config.vector_dim
    \/ /\ RowsWithin(st)
       /\ \A i \in Activated(st, v) :
             st.config.vector_dim <= Len(st.memory[i])

SaveDefined(st) == AllWithin(st)

\* loadFromSD(): every row is indexed once the header is accepted.
LoadDefined(st, card, junk_locations, junk_dim) ==
    LET c == loadConfig(st, card).st
        f == card.memory_file
    IN \/ f.kind # "data"
       \/ ReadWord(f.words, 1, junk_locations) # c.config.num_locations
       \/ ReadWord(f.words, 2, junk_dim) # c.config.vector_dim
       \/ AllWithin(c)

(***************************************************************************)
(* The calls on the host's Store.                                          *)
(***************************************************************************)
Write(v, strength) ==
    /\ CallDefined(sdm, v)
    /\ \E r \in {SDMWrite(sdm, v, strength)} :
          /\ sdm' = r.st
          /\ ret' = Ret("write", v, strength, r.ret, <<>>, FZero, FALSE)
    /\ UNCHANGED sd

Read(q) ==
    /\ CallDefined(sdm, q)
    /\ \E r \in {SDMRead(sdm, q)} :
          /\ sdm' = r.st
          /\ ret' = Ret("read", q, 0, 0, r.out, r.conf, FALSE)
    /\ UNCHANGED sd

SaveToSD ==
    /\ SaveDefined(sdm)
    /\ sd' = saveToSD(sdm, sd)
    /\ ret' = Ret("saveToSD", <<>>, 0, 0, <<>>, FZero, TRUE)
    /\ UNCHANGED sdm

LoadFromSD ==
    \E jl \in JunkWords(sd), jd \in JunkWords(sd) :
        /\ LoadDefined(sdm, sd, jl, jd)
        /\ \E r \in {loadFromSD(sdm, sd, jl, jd)} :
              /\ sdm' = r.st
              /\ ret' = Ret("loadFromSD", <<>>, 0, 0, <<>>, FZero, r.ok)
        /\ UNCHANGED sd

LoadConfig ==
    /\ \E r \in {loadConfig(sdm, sd)} :
          /\ sdm' = r.st
          /\ ret' = Ret("loadConfig", <<>>, 0, 0, <<>>, FZero, r.ok)
    /\ UNCHANGED sd

\* The device restarts: the host constructs a Store with `cfg` again and
\* initializes it.  The destructor of the old Store does not run.
Reboot(cfg) ==
    /\ sdm' \in Boot(cfg, sd)
    /\ ret' = Booted
    /\ UNCHANGED sd

\* testConfiguration(cfg, num_tests): a test Store is constructed on the
\* same card and initialized, the patterns `tests` are written and read,
\* and the test Store's destructor saves it to the card.
TestConfiguration(cfg, num_tests) ==
    \E t0 \in Boot(cfg, sd), tests \in [1..num_tests -> SparseVectors(cfg)] :
        /\ sd' = saveToSD(RunTests(t0, tests), sd)
        /\ ret' = Ret("testConfiguration", <<>>, 0, 0, <<>>, FZero, TRUE)
        /\ UNCHANGED sdm

\* A call that indexes past the end of a vector.  What the build does then
\* is not defined: the call may return with the Store's vectors as they
\* were, or the device may reset and boot again.
Undefined(cfg, vectors) ==
    /\ \/ \E v \in vectors : ~CallDefined(sdm, v)
       \/ ~SaveDefined(sdm)
       \/ \E jl \in JunkWords(sd), jd \in JunkWords(sd) :
             ~LoadDefined(sdm, sd, jl, jd)
    /\ sdm' \in {sdm} \cup Boot(cfg, sd)
    /\ ret' = Ret("undefined", <<>>, 0, 0, <<>>, FZero, FALSE)
    /\ UNCHANGED sd

\* mergeLibraryIntoSDM(lib_name, reinforcement) on the host's Store.
MergeLibraryIntoSDM(lib_name, reinforcement) ==
    \E jv \in JunkHeader(sd, lib_name), jd \in JunkHeader(sd, lib_name) :
        /\ \A i \in 1..Len(loadPretrainedVectors(sdm, sd, lib_name,
                                                 jv, jd).vectors) :
              CallDefined(sdm, loadPretrainedVectors(sdm, sd, lib_name,
                                                     jv, jd).vectors[i])
        /\ \E r \in {mergeLibraryIntoSDM(sdm, sd, lib_name, reinforcement,
                                         jv, jd)} :
              /\ sdm' = r.st
              /\ ret' = Ret("mergeLibraryIntoSDM", <<>>, 2, 0, <<>>, FZero,
                            r.ok)
                        @@ [lib_name |-> lib_name,
                            reinforcement |-> reinforcement]
        /\ UNCHANGED sd

\* loadPretrainedLib(lib_name) on the host's Store.
LoadPretrainedLib(lib_name) ==
    \E jv \in JunkHeader(sd, lib_name), jd \in JunkHeader(sd, lib_name) :
        /\ \A i \in 1..Len(loadPretrainedVectors(sdm, sd, lib_name,
                                                 jv, jd).vectors) :
              CallDefined(sdm, loadPretrainedVectors(sdm, sd, lib_name,
                                                     jv, jd).vectors[i])
        /\ \E r \in {loadPretrainedLib(sdm, sd, lib_name, jv, jd)} :
              /\ sdm' = r.st
              /\ ret' = Ret("mergeLibraryIntoSDM", <<>>, 2, 0, <<>>, FZero,
                            r.ok)
                        @@ [lib_name |-> lib_name,
                            reinforcement |-> DefaultReinforcement]
        /\ UNCHANGED sd

\* encodeFloat(value, min_val, max_val) by the encoder of the host's Store.
EncodeFloat(value, min_val, max_val) ==
    /\ ret' = Ret("encodeFloat", <<>>, 0, 0,
                  encodeFloat(sdm, value, min_val, max_val), FZero, TRUE)
              @@ [value |-> value, min_val |-> min_val, max_val |-> max_val]
    /\ UNCHANGED <<sdm, sd>>

\* decodeFloat of the vector encodeFloat has just returned, with the same
\* range.
DecodeFloat ==
    /\ ret.op = "encodeFloat"
    /\ ret' = Ret("decodeFloat", ret.out, 0, 0, <<>>, FZero, TRUE)
              @@ [value |-> ret.value, min_val |-> ret.min_val,
                  max_val |-> ret.max_val,
                  decoded |-> decodeFloat(sdm, ret.out, ret.min_val,
                                          ret.max_val)]
    /\ UNCHANGED <<sdm, sd>>

\* encodeSequence(sequence) by the encoder of the host's Store.
EncodeSequence(sequence) ==
    /\ ret' = Ret("encodeSequence", <<>>, 0, 0,
                  encodeSequence(sdm, sequence), FZero, TRUE)
              @@ [sequence |-> sequence]
    /\ UNCHANGED <<sdm, sd>>

\* decodeSequence of the vector encodeSequence has just returned.
DecodeSequence ==
    /\ ret.op = "encodeSequence"
    /\ ret' = Ret("decodeSequence", ret.out, 0, 0, <<>>, FZero, TRUE)
              @@ [sequence |-> ret.sequence,
                  decoded |-> decodeSequence(sdm, ret.out)]
    /\ UNCHANGED <<sdm, sd>>

(***************************************************************************)
(* Bounds and inputs.                                                      *)
(***************************************************************************)
\* Accepted writes and answered reads per boot (guards on the statistics).
MaxWrites == 1
MaxReads == 2

ReadBudget(st) == st.stats.total_reads < MaxReads

\* 0.5f, and 0.03f (the default sparsity of SDMConfig).
Half == <<8388608, -24>>
DefaultSparsity == <<16106127, -29>>

(***************************************************************************)
(* Spec: the host's Store under write, read and reload, booted with every  *)
(* outcome of the address sampling on every card of SeedCards.             *)
(***************************************************************************)
\* The configuration the host constructs its Store with.
HostConfig == MkConfig(2, 2, 1, Half)

\* The strengths and vectors the host presents to write and read; <<1>> and
\* <<1, 0, 1>> are of the wrong length.
Strengths == {1, 255}
InputVectors == {<<0, 1>>, <<1, 1>>, <<1>>, <<1, 0, 1>>}

\* The Store of an earlier session, with the same dimensions and radius 2,
\* after PriorWrites writes of <<1, 0>> with strength 255.
PriorWrites == 3

PriorStore ==
    Repeat(initialize(NewStore(MkConfig(2, 2, 2, Half)), BlankCard,
                      <<<<0, 1>>, <<1, 0>>>>, 0, 0),
           <<1, 0>>, 255, PriorWrites)

\* What the card holds when the host boots: nothing, a configuration file
\* naming only an access radius, or what the earlier session saved.
SeedCards ==
    {BlankCard,
     [BlankCard EXCEPT
        !.config_file = JsonFile([k \in {"access_radius"} |-> 0])],
     saveToSD(PriorStore, BlankCard)}

Init ==
    /\ sd \in SeedCards
    /\ sdm \in Boot(HostConfig, sd)
    /\ ret = Booted

Next ==
    \/ \E v \in InputVectors, strength \in Strengths :
          sdm.stats.total_writes < MaxWrites /\ Write(v, strength)
    \/ \E q \in InputVectors : ReadBudget(sdm) /\ Read(q)
    \/ LoadFromSD

Spec == Init /\ [][Next]_vars

(***************************************************************************)
(* SpecRecall: a fresh Store of three locations of three bits, written     *)
(* and read.                                                               *)
(***************************************************************************)
RecallConfig == MkConfig(3, 3, 2, Half)

\* The <<vector, strength>> pairs written, and the queries read.
RecallWrites == {<<<<1, 0, 1>>, 2>>, <<<<1, 1, 0>>, 1>>}
RecallQueries == {<<0, 1, 0>>, <<1, 0, 1>>}

\* Accepted writes per boot.
MaxRecallWrites == 2

InitRecall ==
    /\ sd = BlankCard
    /\ sdm \in Boot(RecallConfig, sd)
    /\ ret = Booted

NextRecall ==
    \/ \E c \in RecallWrites :
          sdm.stats.total_writes < MaxRecallWrites /\ Write(c[1], c[2])
    \/ \E q \in RecallQueries : ReadBudget(sdm) /\ Read(q)

SpecRecall == InitRecall /\ [][NextRecall]_vars

(***************************************************************************)
(* SpecSoak: a fresh Store of one location that every vector activates.    *)
(* One write, of <<1, 0>> with one strength, is repeated more often than   *)
(* an access count can hold.                                               *)
(***************************************************************************)
SoakConfig == MkConfig(2, 1, 2, Half)

MaxSoakWrites == 65537

InitSoak ==
    /\ sd = BlankCard
    /\ sdm \in Boot(SoakConfig, sd)
    /\ ret = Booted

NextSoak ==
    \E strength \in Strengths :
        /\ sdm.stats.total_writes < MaxSoakWrites
        /\ ret.op = "write" => strength = ret.strength
        /\ Write(<<1, 0>>, strength)

SpecSoak == InitSoak /\ [][NextSoak]_vars

(***************************************************************************)
(* SpecHost: the host's Store and the benchmark's test Stores on one card, *)
(* with restarts.                                                          *)
(***************************************************************************)
\* The vector the host writes and reads, with strength 1.
HostVectors == {<<0, 1>>}

\* The configurations the benchmark tries (its grid), with the default
\* sparsity, and the patterns of one trial.
GridConfigs ==
    {MkConfig(1, 1, 1, DefaultSparsity), MkConfig(2, 3, 1, DefaultSparsity)}

MaxHostWrites == 1
MaxHostReads == 1

HostWriteBudget(st) ==
    /\ st.stats.total_writes < MaxHostWrites
    /\ \A i \in 1..Len(st.access_counts) : st.access_counts[i] < MaxHostWrites

NumTests == 1

\* A trial runs only on a card whose state file, if any, records fewer
\* activations than one trial makes.
TrialBudget(card) ==
    LET w == card.memory_file.words
    IN \A k \in 3..Len(w) : k <= 2 + w[1] => w[k] < ReinforceWrites

\* What the card holds at the first boot: nothing, or a state file cut
\* off after the first word of its header.
HostSeedCards ==
    {BlankCard, [BlankCard EXCEPT !.memory_file = DataFile(<<2>>)]}

InitHost ==
    /\ sd \in HostSeedCards
    /\ sdm \in Boot(HostConfig, sd)
    /\ ret = Booted

NextHost ==
    \/ \E v \in HostVectors : HostWriteBudget(sdm) /\ Write(v, 1)
    \/ \E q \in HostVectors :
          sdm.stats.total_reads < MaxHostReads /\ Read(q)
    \/ SaveToSD
    \/ LoadFromSD
    \/ LoadConfig
    \/ Reboot(HostConfig)
    \/ \E cfg \in GridConfigs :
          TrialBudget(sd) /\ TestConfiguration(cfg, NumTests)
    \/ Undefined(HostConfig, HostVectors)

SpecHost == InitHost /\ [][NextHost]_vars

(***************************************************************************)
(* SpecCard: the host's Store written, saved and reloaded on cards whose   *)
(* state file is whole, of other dimensions, or cut short.                 *)
(***************************************************************************)
\* The vectors the host writes, with strength 1.
CardVectors == {<<0, 1>>, <<1, 0>>}

MaxCardWrites == 2

\* The state file of the earlier session (PriorStore): two locations of
\* two counters.
PriorWords == MemoryWords(PriorStore)

\* The state files found at boot: none; the earlier session's; that file
\* with another number of locations or another dimension in its header;
\* that file cut off after k words, for every k from the end of the header.
CardStateFiles ==
    {AbsentFile, DataFile(PriorWords),
     DataFile([PriorWords EXCEPT ![1] = 3]),
     DataFile([PriorWords EXCEPT ![2] = 3])}
    \cup {DataFile(SubSeq(PriorWords, 1, k)) : k \in 2..(Len(PriorWords) - 1)}

\* The configuration files found at boot: none, or the host's own.
CardConfigFiles == {AbsentFile, JsonFile(ConfigDoc(HostConfig))}

InitCard ==
    /\ sd \in {[BlankCard EXCEPT !.config_file = c, !.memory_file = f] :
                  c \in CardConfigFiles, f \in CardStateFiles}
    /\ sdm \in Boot(HostConfig, sd)
    /\ ret = Booted

NextCard ==
    \/ \E v \in CardVectors :
          sdm.stats.total_writes < MaxCardWrites /\ Write(v, 1)
    \/ SaveToSD
    \/ LoadFromSD

SpecCard == InitCard /\ [][NextCard]_vars

(***************************************************************************)
(* SpecFresh: Stores constructed with the configurations of FreshConfigs   *)
(* on a blank card, then written, read, saved and reloaded.                *)
(***************************************************************************)
\* 0.8333333f, the float nearest to 5/6.
FiveSixths == <<13981013, -24>>

FreshConfigs ==
    {MkConfig(6, 1, 1, FiveSixths), MkConfig(4, 2, 1, Half),
     MkConfig(3, 2, 1, DefaultSparsity)}

MaxFreshWrites == 1
MaxFreshReads == 1

InitFresh ==
    /\ sd = BlankCard
    /\ \E cfg \in FreshConfigs : sdm \in Boot(cfg, sd)
    /\ ret = Booted

NextFresh ==
    \/ \E v \in SparseVectors(sdm.config) :
          sdm.stats.total_writes < MaxFreshWrites /\ Write(v, 1)
    \/ \E q \in SparseVectors(sdm.config) :
          sdm.stats.total_reads < MaxFreshReads /\ Read(q)
    \/ SaveToSD
    \/ LoadFromSD

SpecFresh == InitFresh /\ [][NextFresh]_vars

(***************************************************************************)
(* SpecConfig: the host's Store and loadConfig() on a card whose           *)
(* configuration file is absent, cannot be opened, does not parse, or      *)
(* holds any subset of the fields, with or without fields loadConfig does  *)
(* not know.  The card is a removable medium: its configuration file can   *)
(* be another one at the next call.  The card holds no state file, so      *)
(* loadFromSD() loads the configuration at most.                           *)
(***************************************************************************)
\* The values a configuration document gives to the fields.
DocValues ==
    [k \in {"vector_dim", "num_locations", "access_radius", "sparsity",
            "timestamp", "comment"} |->
        CASE k = "vector_dim" -> 3
          [] k = "num_locations" -> 1
          [] k = "access_radius" -> 0
          [] k = "sparsity" -> DefaultSparsity
          [] OTHER -> 7]

ConfigDocs ==
    {[k \in known \cup unknown |-> DocValues[k]] :
        known \in SUBSET {"vector_dim", "num_locations", "access_radius",
                          "sparsity"},
        unknown \in {{}, {"timestamp", "comment"}}}

\* A file that exists and cannot be opened, and one whose text is not JSON.
UnopenableFile == [kind |-> "unopenable", doc |-> NoDoc, words |-> <<>>]
UnparseableFile == [kind |-> "unparseable", doc |-> NoDoc, words |-> <<>>]

ConfigFiles ==
    {AbsentFile, UnopenableFile, UnparseableFile}
    \cup {JsonFile(d) : d \in ConfigDocs}

\* The configuration file on the card becomes `f`.
ReplaceConfigFile(f) ==
    /\ sd' = [sd EXCEPT !.config_file = f]
    /\ ret' = Ret("replaceConfigFile", <<>>, 0, 0, <<>>, FZero, TRUE)
    /\ UNCHANGED sdm

InitConfig ==
    /\ sd \in {[BlankCard EXCEPT !.config_file = f] : f \in ConfigFiles}
    /\ sdm \in Boot(HostConfig, sd)
    /\ ret = Booted

NextConfig ==
    \/ LoadConfig
    \/ LoadFromSD
    \/ \E f \in ConfigFiles : ret.op # "replaceConfigFile" /\ ReplaceConfigFile(f)

SpecConfig == InitConfig /\ [][NextConfig]_vars

(***************************************************************************)
(* SpecLib: libraries merged into the host's Store, fresh or loaded with   *)
(* counters next to the extremes.                                          *)
(***************************************************************************)
\* A state file of two locations of two counters, 32766 and -32767.
WornWords == <<2, 2, 0, 0, 32766, 32769, 32766, 32769>>

\* The vectors files of the library "common_words": two vectors of two
\* bits; one vector of three bits; two vectors of which the second is
\* missing; no vector; a file that cannot be opened; a file cut off inside
\* its header.  The library "numbers" is not on the card, or holds one
\* vector of two bits.
LibraryFiles ==
    {DataFile(<<2, 2, 1, 1, 0, 0>>), DataFile(<<1, 3, 1, 0, 1>>),
     DataFile(<<2, 2, 1, 1>>), DataFile(<<0, 2>>), UnopenableFile,
     DataFile(<<2>>)}

LibCards ==
    {[BlankCard EXCEPT !.memory_file = m,
                       !.lib_files["common_words"] = l,
                       !.lib_files["numbers"] = n] :
        m \in {AbsentFile, DataFile(WornWords)}, l \in LibraryFiles,
        n \in {AbsentFile, DataFile(<<1, 2, 0, 1>>)}}

\* The reinforcements of a merge, next to the default of
\* loadPretrainedLib.
Reinforcements == {0, 2}

MaxLibWrites == 6

InitLib ==
    /\ sd \in LibCards
    /\ sdm \in Boot(HostConfig, sd)
    /\ ret = Booted

NextLib ==
    \/ \E name \in LibNames, reinforcement \in Reinforcements :
          /\ sdm.stats.total_writes < MaxLibWrites
          /\ MergeLibraryIntoSDM(name, reinforcement)
    \/ \E name \in LibNames :
          sdm.stats.total_writes < MaxLibWrites /\ LoadPretrainedLib(name)

SpecLib == InitLib /\ [][NextLib]_vars

(***************************************************************************)
(* SpecScalar: scalars encoded and decoded by the encoder of a Store of    *)
(* dimension 2, 4 or 10.                                                   *)
(***************************************************************************)
ScalarConfigs ==
    {MkConfig(d, 1, 0, DefaultSparsity) : d \in {2, 4, 10}}

\* The ranges <<min_val, max_val>>.
ScalarRanges ==
    {<<FromInt(1), FromInt(2)>>, <<FromInt(4), FromInt(5)>>,
     <<FromInt(4), FromInt(7)>>, <<FromInt(1), FromInt(7)>>}

\* The values n + k / 3.0f.
MaxScalar == 7

ScalarValues ==
    {FAdd(FromInt(n), FDiv(FromInt(k), FromInt(3))) :
        n \in 1..MaxScalar, k \in 0..2}

\* min_val <= value <= max_val
Within(value, range) ==
    ~FLess(value, range[1]) /\ ~FLess(range[2], value)

InitScalar ==
    /\ sd = BlankCard
    /\ \E cfg \in ScalarConfigs : sdm \in Boot(cfg, sd)
    /\ ret = Booted

NextScalar ==
    \/ \E range \in ScalarRanges :
          \E value \in {v \in ScalarValues : Within(v, range)} :
              EncodeFloat(value, range[1], range[2])
    \/ DecodeFloat

SpecScalar == InitScalar /\ [][NextScalar]_vars

(***************************************************************************)
(* SpecSequence: sequences encoded and decoded by the encoder of a Store   *)
(* of dimension 16, 32, 33 or 64.                                          *)
(***************************************************************************)
\* 2^-7: no address bit is set at these dimensions.
Sparse == <<8388608, -30>>

SequenceConfigs == {MkConfig(d, 1, 0, Sparse) : d \in {16, 32, 33, 64}}

\* The elements: -1, -0.5, 0, 0.99f and 1.
SequenceElements ==
    {FromInt(-1), <<-8388608, -24>>, FZero, <<16609444, -24>>, FromInt(1)}

\* The sequences: all of at most MaxSequence elements, and the one of
\* sequence_length elements 0.99f.
MaxSequence == 2

Sequences ==
    UNION {[1..len -> SequenceElements] : len \in 0..MaxSequence}
    \cup {[k \in 1..sequence_length |-> <<16609444, -24>>]}

\* With no bit to set, the address sampling has one outcome.
InitSequence ==
    /\ sd = BlankCard
    /\ \E cfg \in SequenceConfigs :
          /\ NumOnes(cfg) = 0
          /\ sdm = initialize(NewStore(cfg), sd,
                              [i \in 1..cfg.num_locations |->
                                  ZeroVector(cfg.vector_dim)], 0, 0)
    /\ ret = Booted

NextSequence ==
    \/ \E sequence \in Sequences : EncodeSequence(sequence)
    \/ DecodeSequence

SpecSequence == InitSequence /\ [][NextSequence]_vars

(***************************************************************************)
(* The benchmark sweeps (SDMBenchmark).  A log file is the sequence of its *)
(* rows after the header row; a row is the record of its columns, with the *)
(* decimal columns in units of their last digit.  duration_ms, a           *)
(* difference of millis(), is 0 like the timestamps.                       *)
(***************************************************************************)
CsvFile(rows) ==
    [kind |-> "csv", doc |-> NoDoc, words |-> <<>>, rows |-> rows]

\* SDMConfig as its member initializers leave it.
DefaultSDMConfig == MkConfig(128, 1000, 20, DefaultSparsity)

\* 0.1f, 0.2f, 0.4f and 0.6f.
Tenth == <<13421773, -27>>
Fifth == <<13421773, -26>>
TwoFifths == <<13421773, -25>>
ThreeFifths == <<10066330, -24>>

\* The lists runQuickBenchmark iterates.
quick_dims == <<32, 64>>
quick_locations == <<100, 200>>
quick_factors == <<Fifth, TwoFifths, ThreeFifths>>
quick_reinforces == <<5, 15, 30>>

\* BenchmarkParams, the lists runComprehensiveBenchmark iterates.
vector_dims == <<32, 64, 128, 256>>
locations_list == <<500, 1000, 2000>>
radius_factors == <<Tenth, Fifth, TwoFifths, ThreeFifths>>
reinforce_cycles == <<1, 5, 10, 20, 30>>

\* total_tests and total_configs
QuickTotal ==
    Len(quick_dims) * Len(quick_locations) * Len(quick_factors) * 3
ComprehensiveTotal ==
    Len(vector_dims) * Len(locations_list) * Len(radius_factors)
        * Len(reinforce_cycles)

\* SDMConfig test_config with the three fields the sweeps assign.
TestConfig(dim, locations, factor) ==
    [DefaultSDMConfig EXCEPT
        !.vector_dim = dim,
        !.num_locations = locations,
        !.access_radius = FToU16(FMul(FromInt(dim), factor))]

\* locations * dim * 3 + locations * 2
MemoryUsage(dim, locations) == locations * dim * 3 + locations * 2

\* The first n decimals of rem / q (0 <= rem < q), and what remains.
RECURSIVE Fraction(_, _, _)
Fraction(rem, q, n) ==
    IF n = 0 THEN [digits |-> 0, rem |-> rem]
    ELSE LET f == Fraction(rem, q, n - 1)
         IN [digits |-> f.digits * 10 + ((f.rem * 10) \div q),
             rem |-> (f.rem * 10) % q]

RECURSIVE Pow10(_)
Pow10(n) == IF n = 0 THEN 1 ELSE 10 * Pow10(n - 1)

\* String(a, n) for a float 0 <= a < 2^7 of at least 2^-4, or 0: the
\* decimal with n places nearest to a, in units of 10^-n.
Decimals(a, n) ==
    IF a[1] = 0 THEN 0
    ELSE IF a[2] >= 0 THEN a[1] * Pow2(a[2]) * Pow10(n)
    ELSE LET q == Pow2(-a[2])
             f == Fraction(a[1] % q, q, n)
         IN (a[1] \div q) * Pow10(n) + f.digits
                + (IF 2 * f.rem >= q THEN 1 ELSE 0)

(***************************************************************************)
(* The test Stores of a sweep.  Every test Store initializes itself from   *)
(* the card and saves itself to the card when it is destroyed, so the      *)
(* first one fixes the configuration of all that follow.  The sweeps       *)
(* start at a dimension for which float(dim * 0.03f) is 0: the addresses   *)
(* and the test vectors have no bit set, every write reaches every         *)
(* location, and all the counters of a test Store are equal.  Such a Store *)
(* is given by one counter and one access count.                           *)
(***************************************************************************)
\* The Store files of a card whose state file, when present, holds one
\* counter value and one count value.
StoreFiles(card) ==
    LET w == card.memory_file.words
        stored == card.memory_file.kind = "data"
    IN [config_file |-> card.config_file,
        stats_file |-> card.stats_file,
        stored |-> stored,
        num_locations |-> IF stored THEN w[1] ELSE 0,
        vector_dim |-> IF stored THEN w[2] ELSE 0,
        count |-> IF stored THEN w[3] ELSE 0,
        counter |-> IF stored THEN FromWord(w[3 + w[1]]) ELSE 0]

\* The Store with no address bits whose counters are all `counter`.
UniformStore(cfg, counter, count, stats) ==
    [config |-> cfg,
     addresses |-> [i \in 1..cfg.num_locations |->
                       ZeroVector(cfg.vector_dim)],
     memory |-> [i \in 1..cfg.num_locations |->
                    [j \in 1..cfg.vector_dim |-> counter]],
     access_counts |-> [i \in 1..cfg.num_locations |-> count],
     stats |-> stats]

\* The card with the Store files `files`.
WithStoreFiles(card, files) ==
    IF ~files.stored THEN card
    ELSE [card EXCEPT
            !.config_file = files.config_file,
            !.stats_file = files.stats_file,
            !.memory_file =
                DataFile(MemoryWords(UniformStore(
                    MkConfig(files.vector_dim, files.num_locations, 0,
                             FZero),
                    files.counter, files.count, ZeroStats)))]

\* testConfiguration(config, num_tests) on the Store files `files`: the
\* files the test Store leaves and the score returned.  The test Store
\* has the configuration of the card's file if there is one.  When its
\* dimension is that of `config`, every test is ReinforceWrites writes of
\* the zero vector to every location (t tests lower a counter by
\* ReinforceWrites * t, down to INT16_MIN) and a read that returns 1 where
\* the counter is positive.  When its dimension is smaller, write and read
\* reject the test vector and the comparison loop reads past the end of
\* the vector returned: the score is `garbage`.
testConfiguration(files, config, num_tests, garbage) ==
    LET c == loadConfig(NewStore(config), files).st.config
        fits == /\ files.stored
                /\ files.num_locations = c.num_locations
                /\ files.vector_dim = c.vector_dim
        counter0 == IF fits THEN files.counter ELSE 0
        count0 == IF fits THEN files.count ELSE 0
        accepted == config.vector_dim = c.vector_dim
        after(t) == WriteCounter(counter0, 0, ReinforceWrites * t)
        match_ratio == [t \in 1..num_tests |->
                           IF after(t) > 0 THEN FZero ELSE FOne]
        stats == [ZeroStats EXCEPT
                    !.total_writes = ReinforceWrites * num_tests,
                    !.total_reads = num_tests,
                    !.last_confidence = FAbs(FromInt(after(num_tests))),
                    !.last_activated_locations = c.num_locations]
    IN CASE /\ NumOnes(c) = 0
            /\ c.vector_dim <= config.vector_dim
            /\ accepted => NumOnes(config) = 0 ->
        [files |->
            [config_file |-> JsonFile(ConfigDoc(c)),
             stats_file |-> JsonFile(StatsDoc(IF accepted THEN stats
                                              ELSE ZeroStats)),
             stored |-> TRUE,
             num_locations |-> c.num_locations,
             vector_dim |-> c.vector_dim,
             count |-> IF accepted
                       THEN (count0 + ReinforceWrites * num_tests)
                                % UINT16_MOD
                       ELSE count0,
             counter |-> IF accepted THEN after(num_tests) ELSE counter0],
         performance |->
            IF accepted
            THEN FDiv(Accumulate(FZero, match_ratio), FromInt(num_tests))
            ELSE garbage]

(***************************************************************************)
(* The sweeps.  `garbage` gives, for every test in the order they are run, *)
(* the score it returns if it reads past the end of a vector, and `heap`   *)
(* what ESP.getFreeHeap() returns during that test.                        *)
(***************************************************************************)
\* The locals of a sweep before its loops (count is test_count or
\* config_count).
SweepStart(card) ==
    [files |-> StoreFiles(card), rows |-> <<>>, count |-> 0,
     best_performance |-> FZero, best_config |-> DefaultSDMConfig]

\* if (performance > best_performance) { best_performance = performance;
\* best_config = test_config; }
KeepBest(acc, performance, test_config) ==
    IF FLess(acc.best_performance, performance)
    THEN [acc EXCEPT !.best_performance = performance,
                     !.best_config = test_config]
    ELSE acc

\* The element of a set of one element.
The(S) == CHOOSE r \in S : TRUE

\* The body of the innermost loop of runQuickBenchmark, up to its memory
\* check.
QuickTest(acc, dim, locations, factor, reinforce, garbage) ==
    LET test_config == TestConfig(dim, locations, factor)
        test == testConfiguration(acc.files, test_config, 5,
                                  garbage[acc.count + 1])
        row(t) == [vector_dim |-> dim,
                   num_locations |-> locations,
                   access_radius |-> test_config.access_radius,
                   radius_factor |-> Decimals(factor, 2),
                   reinforcement |-> reinforce,
                   match_ratio |-> Decimals(t.performance, 3),
                   confidence |-> 0,
                   duration_ms |-> 0,
                   memory_usage |-> MemoryUsage(dim, locations)]
    IN The({KeepBest([acc EXCEPT !.count = @ + 1,
                                 !.files = t.files,
                                 !.rows = Append(@, row(t))],
                     t.performance, test_config) : t \in {test}})

\* for (uint8_t reinforce : {5, 15, 30}) from the i-th value on: a low
\* heap after a test leaves this loop.
RECURSIVE QuickReinforces(_, _, _, _, _, _, _)
QuickReinforces(i, acc, dim, locations, factor, garbage, heap) ==
    IF i > Len(quick_reinforces) THEN acc
    ELSE The({IF heap[next.count] < 50000 THEN next
              ELSE QuickReinforces(i + 1, next, dim, locations, factor,
                                   garbage, heap) :
              next \in {QuickTest(acc, dim, locations, factor,
                                  quick_reinforces[i], garbage)}})

\* for (float factor : quick_factors) from the i-th value on.
RECURSIVE QuickFactors(_, _, _, _, _, _)
QuickFactors(i, acc, dim, locations, garbage, heap) ==
    IF i > Len(quick_factors) THEN acc
    ELSE The({QuickFactors(i + 1, next, dim, locations, garbage, heap) :
              next \in {QuickReinforces(1, acc, dim, locations,
                                        quick_factors[i], garbage, heap)}})

\* for (uint16_t locations : quick_locations) from the i-th value on.
RECURSIVE QuickLocations(_, _, _, _, _)
QuickLocations(i, acc, dim, garbage, heap) ==
    IF i > Len(quick_locations) THEN acc
    ELSE The({QuickLocations(i + 1, next, dim, garbage, heap) :
              next \in {QuickFactors(1, acc, dim, quick_locations[i],
                                     garbage, heap)}})

\* for (uint16_t dim : quick_dims) from the i-th value on.
RECURSIVE QuickDims(_, _, _, _)
QuickDims(i, acc, garbage, heap) ==
    IF i > Len(quick_dims) THEN acc
    ELSE The({QuickDims(i + 1, next, garbage, heap) :
              next \in {QuickLocations(1, acc, quick_dims[i], garbage,
                                       heap)}})

\* required_memory > (ESP.getFreeHeap() - 100000) in uint32_t: below
\* 100000 the difference wraps to more than any footprint of the grid.
InsufficientMemory(required_memory, free_heap) ==
    IF free_heap >= 100000
    THEN required_memory > free_heap - 100000
    ELSE FALSE

\* The body of the innermost loop of runComprehensiveBenchmark.
ComprehensiveTest(acc, dim, locations, factor, reinforce, garbage, heap) ==
    LET test_config == TestConfig(dim, locations, factor)
        test == testConfiguration(acc.files, test_config, 3,
                                  garbage[acc.count + 1])
        row(t) == [vector_dim |-> dim,
                   num_locations |-> locations,
                   access_radius |-> test_config.access_radius,
                   radius_factor |-> Decimals(factor, 2),
                   reinforcement |-> reinforce,
                   match_ratio |-> Decimals(t.performance, 4),
                   confidence |-> 0,
                   duration_ms |-> 0,
                   memory_usage |-> MemoryUsage(dim, locations),
                   free_heap |-> heap[acc.count + 1]]
    IN The({KeepBest([acc EXCEPT !.count = @ + 1,
                                 !.files = t.files,
                                 !.rows = Append(@, row(t))],
                     t.performance, test_config) : t \in {test}})

\* for (uint8_t reinforce : params.reinforce_cycles) from the i-th value
\* on.
RECURSIVE ComprehensiveReinforces(_, _, _, _, _, _, _)
ComprehensiveReinforces(i, acc, dim, locations, factor, garbage, heap) ==
    IF i > Len(reinforce_cycles) THEN acc
    ELSE The({ComprehensiveReinforces(i + 1, next, dim, locations, factor,
                                      garbage, heap) :
              next \in {ComprehensiveTest(acc, dim, locations, factor,
                                          reinforce_cycles[i], garbage,
                                          heap)}})

\* for (float factor : params.radius_factors) from the i-th value on.
RECURSIVE ComprehensiveFactors(_, _, _, _, _, _)
ComprehensiveFactors(i, acc, dim, locations, garbage, heap) ==
    IF i > Len(radius_factors) THEN acc
    ELSE The({ComprehensiveFactors(i + 1, next, dim, locations, garbage,
                                   heap) :
              next \in {ComprehensiveReinforces(1, acc, dim, locations,
                                                radius_factors[i],
                                                garbage, heap)}})

\* for (uint16_t locations : params.num_locations) from the i-th value
\* on: a (dim, locations) whose footprint does not fit is skipped.
RECURSIVE ComprehensiveLocations(_, _, _, _, _)
ComprehensiveLocations(i, acc, dim, garbage, heap) ==
    IF i > Len(locations_list) THEN acc
    ELSE The({ComprehensiveLocations(i + 1, next, dim, garbage, heap) :
              next \in {IF InsufficientMemory(
                               MemoryUsage(dim, locations_list[i]),
                               heap[acc.count + 1])
                        THEN acc
                        ELSE ComprehensiveFactors(1, acc, dim,
                                 locations_list[i], garbage, heap)}})

\* for (uint16_t dim : params.vector_dims) from the i-th value on.
RECURSIVE ComprehensiveDims(_, _, _, _)
ComprehensiveDims(i, acc, garbage, heap) ==
    IF i > Len(vector_dims) THEN acc
    ELSE The({ComprehensiveDims(i + 1, next, garbage, heap) :
              next \in {ComprehensiveLocations(1, acc, vector_dims[i],
                                               garbage, heap)}})

\* The document saveOptimalConfig() serializes.
OptimalDoc(cfg) ==
    [k \in {"vector_dim", "num_locations", "access_radius", "sparsity",
            "timestamp", "version"} |->
        CASE k = "vector_dim" -> cfg.vector_dim
          [] k = "num_locations" -> cfg.num_locations
          [] k = "access_radius" -> cfg.access_radius
          [] k = "sparsity" -> cfg.sparsity
          [] k = "version" -> "1.0"
          [] OTHER -> 0]

\* saveOptimalConfig(config): the card afterwards.
saveOptimalConfig(cfg, card) ==
    [card EXCEPT !.optimal_config_file = JsonFile(OptimalDoc(cfg))]

\* runQuickBenchmark(): the card afterwards.
runQuickBenchmark(card, garbage, heap) ==
    The({saveOptimalConfig(acc.best_config,
             [WithStoreFiles(card, acc.files) EXCEPT
                 !.benchmark_results_file = CsvFile(acc.rows)]) :
         acc \in {QuickDims(1, SweepStart(card), garbage, heap)}})

\* runComprehensiveBenchmark(): the card afterwards.
runComprehensiveBenchmark(card, garbage, heap) ==
    The({saveOptimalConfig(acc.best_config,
             [WithStoreFiles(card, acc.files) EXCEPT
                 !.comprehensive_file = CsvFile(acc.rows)]) :
         acc \in {ComprehensiveDims(1, SweepStart(card), garbage, heap)}})

\* The ESP32-S3 configuration findOptimalConfig() falls back to.
SafeConfig == MkConfig(16, 50, 3, DefaultSparsity)

\* findOptimalConfig() without the saveOptimalConfig(default_config) of
\* its last lines.
findOptimalConfigUnsaved(card) ==
    LET f == card.optimal_config_file IN
    IF f.kind = "json"
    THEN [config |-> MkConfig(JsonOr(f.doc, "vector_dim", 0),
                              JsonOr(f.doc, "num_locations", 0),
                              JsonOr(f.doc, "access_radius", 0),
                              JsonOr(f.doc, "sparsity", FZero)),
          card |-> card]
    ELSE [config |-> SafeConfig, card |-> card]

\* findOptimalConfig(): the configuration returned and the card
\* afterwards.
findOptimalConfig(card) ==
    LET f == card.optimal_config_file IN
    IF f.kind = "json"
    THEN [config |-> MkConfig(JsonOr(f.doc, "vector_dim", 0),
                              JsonOr(f.doc, "num_locations", 0),
                              JsonOr(f.doc, "access_radius", 0),
                              JsonOr(f.doc, "sparsity", FZero)),
          card |-> card]
    ELSE [config |-> SafeConfig,
          card |-> saveOptimalConfig(SafeConfig, card)]

(***************************************************************************)
(* SpecSweep: the benchmark on a blank card.                               *)
(***************************************************************************)
\* Sweeps per card.
MaxSweeps == 1

SweepsRun(card) ==
    Cardinality({f \in {"benchmark_results_file", "comprehensive_file"} :
                    card[f].kind = "csv"})

\* The scores a test returns that compares bytes past the end of a
\* vector: 0, 0.5, the float after 0.5, and 1.
Scores == {FZero, Half, <<8388609, -24>>, FOne}

\* One score for the test after the first half of the n tests, another
\* for the others.
GarbageTables(n) ==
    {[k \in 1..n |-> IF k = (n \div 2) + 1 THEN a ELSE b] :
        a \in Scores, b \in Scores}

\* The free heap, low from the test `low` on.
QuickHeaps ==
    {[k \in 1..QuickTotal |-> IF k >= low THEN 40000 ELSE 200000] :
        low \in {1, 2, 3, 4, 19, 20, 21, QuickTotal + 1}}

\* The free heap, the same during the sweep.
ComprehensiveHeaps ==
    {[k \in 1..ComprehensiveTotal |-> h] :
        h \in {60000, 120000, 150000, 300000, 2000000}}

\* runQuickBenchmark() on a card that lets its log file be opened.  The
\* record of the call keeps what ESP.getFreeHeap() returned during it.
RunQuickBenchmark ==
    /\ SweepsRun(sd) < MaxSweeps
    /\ \E heap \in QuickHeaps, garbage \in GarbageTables(QuickTotal) :
          /\ sd' = runQuickBenchmark(sd, garbage, heap)
          /\ ret' = Ret("runQuickBenchmark", <<>>, 0, 0, <<>>, FZero, TRUE)
                    @@ [heap |-> heap]
    /\ UNCHANGED sdm

\* runComprehensiveBenchmark() on a card that lets its log file be opened.
RunComprehensiveBenchmark ==
    /\ SweepsRun(sd) < MaxSweeps
    /\ \E heap \in ComprehensiveHeaps,
          garbage \in GarbageTables(ComprehensiveTotal) :
          sd' = runComprehensiveBenchmark(sd, garbage, heap)
    /\ ret' = Ret("runComprehensiveBenchmark", <<>>, 0, 0, <<>>, FZero,
                  TRUE)
    /\ UNCHANGED sdm

\* findOptimalConfig()
FindOptimalConfig ==
    /\ \E r \in {findOptimalConfig(sd)} :
          /\ sd' = r.card
          /\ ret' = Ret("findOptimalConfig", <<>>, 0, 0, <<>>, FZero, TRUE)
                    @@ [config |-> r.config]
    /\ UNCHANGED sdm

\* The host's Store has the configuration findOptimalConfig() falls back
\* to; with its 16 dimensions no address bit is set.
InitSweep ==
    /\ sd = BlankCard
    /\ sdm = initialize(NewStore(SafeConfig), sd,
                        [i \in 1..SafeConfig.num_locations |->
                            ZeroVector(SafeConfig.vector_dim)], 0, 0)
    /\ ret = Booted

NextSweep ==
    \/ RunQuickBenchmark
    \/ RunComprehensiveBenchmark
    \/ FindOptimalConfig

SpecSweep == InitSweep /\ [][NextSweep]_vars

(***************************************************************************)
(* SpecOptimal: findOptimalConfig() on a card whose optimal-config file is *)
(* absent, does not parse, or holds any subset of the four fields, with or *)
(* without the timestamp and version saveOptimalConfig() adds.  The card   *)
(* is a removable medium: the file can be another one at the next call.    *)
(***************************************************************************)
\* The documents of an optimal-config file: the fields of `known` with the
\* values of `cfg`.
OptimalDocs ==
    {[k \in known \cup unknown |-> OptimalDoc(cfg)[k]] :
        known \in SUBSET {"vector_dim", "num_locations", "access_radius",
                          "sparsity"},
        unknown \in {{}, {"timestamp", "version"}},
        cfg \in {DefaultSDMConfig, TestConfig(64, 200, TwoFifths),
                 MkConfig(3, 1, 0, Half)}}

OptimalFiles ==
    {AbsentFile, UnparseableFile} \cup {JsonFile(d) : d \in OptimalDocs}

\* The optimal-config file on the card becomes `f`.
ReplaceOptimalConfigFile(f) ==
    /\ sd' = [sd EXCEPT !.optimal_config_file = f]
    /\ ret' = Ret("replaceOptimalConfigFile", <<>>, 0, 0, <<>>, FZero, TRUE)
    /\ UNCHANGED sdm

InitOptimal ==
    /\ sd \in {[BlankCard EXCEPT !.optimal_config_file = f] :
                  f \in OptimalFiles}
    /\ sdm = initialize(NewStore(SafeConfig), sd,
                        [i \in 1..SafeConfig.num_locations |->
                            ZeroVector(SafeConfig.vector_dim)], 0, 0)
    /\ ret = Booted

NextOptimal ==
    \/ FindOptimalConfig
    \/ \E f \in OptimalFiles :
          ret.op # "replaceOptimalConfigFile" /\ ReplaceOptimalConfigFile(f)

SpecOptimal == InitOptimal /\ [][NextOptimal]_vars

(***************************************************************************)
(* SpecAlloc: the host's Store initialized with more or less free heap     *)
(* than its matrices need, on a blank card.                                *)
(***************************************************************************)
\* The bytes the resize() calls of initialize() ask for: one per address
\* bit, two per counter, two per access count.
AllocationSize(cfg) == MemoryUsage(cfg.vector_dim, cfg.num_locations)

\* initialize() with `free_heap` bytes free.  The vectors take their
\* memory from operator new, which does not return when there is none:
\* nothing in initialize() or its callers handles it, the program ends
\* there and the device restarts.  Otherwise initialize() runs to its
\* `return true`.
initializeOnHeap(st, card, table, free_heap) ==
    IF AllocationSize(loadConfig(st, card).st.config) > free_heap
    THEN [st |-> st, returned |-> FALSE, ok |-> FALSE]
    ELSE [st |-> initialize(st, card, table, 0, 0), returned |-> TRUE,
          ok |-> TRUE]

AllocConfigs ==
    {MkConfig(6, 1, 1, FiveSixths), MkConfig(3, 2, 1, DefaultSparsity)}

\* What ESP.getFreeHeap() would return before initialize(): around the
\* sizes the configurations of AllocConfigs need (20 and 22 bytes).
FreeHeaps == {0, 19, 20, 21, 22, 1000}

\* initializeSDM() of the host after a restart: new
\* SparseDistributedMemory(cfg), then initialize().
Initialize(cfg, free_heap) ==
    /\ \E table \in AddressTables(cfg) :
          \E r \in {initializeOnHeap(NewStore(cfg), sd, table, free_heap)} :
              /\ sdm' = r.st
              /\ ret' = Ret("initialize", <<>>, 0, 0, <<>>, FZero, r.ok)
                        @@ [returned |-> r.returned,
                            free_heap |-> free_heap]
    /\ UNCHANGED sd

InitAlloc ==
    /\ sd = BlankCard
    /\ \E cfg \in AllocConfigs : sdm \in Boot(cfg, sd)
    /\ ret = Booted

NextAlloc ==
    \/ \E cfg \in AllocConfigs, free_heap \in FreeHeaps :
          Initialize(cfg, free_heap)
    \/ \E v \in SparseVectors(sdm.config) :
          sdm.stats.total_writes < MaxFreshWrites /\ Write(v, 1)
    \/ \E q \in SparseVectors(sdm.config) :
          sdm.stats.total_reads < MaxFreshReads /\ Read(q)

SpecAlloc == InitAlloc /\ [][NextAlloc]_vars

(***************************************************************************)
(* The library export (savePretrainedLib).  A library has, next to its     *)
(* vectors file, a labels file, the sequence of its lines, and a metadata  *)
(* document.  A label "pattern_<i>_access_<count>" is the record of the    *)
(* two numbers it prints.                                                  *)
(***************************************************************************)
TextFile(lines) ==
    [kind |-> "text", doc |-> NoDoc, words |-> <<>>, lines |-> lines]

\* The values of the vectors file: num_vectors, vector_dim, then the bytes
\* of the vectors in order.
RECURSIVE VectorBytes(_)
VectorBytes(vectors) ==
    IF vectors = <<>> THEN <<>>
    ELSE Head(vectors) \o VectorBytes(Tail(vectors))

\* The document saveLibraryMetadata() serializes (file_size, asked of the
\* file after it was closed, is left out).
LibraryInfoDoc(st, lib_name, vector_count) ==
    [k \in {"name", "vector_count", "vector_dim", "creation_time",
            "version"} |->
        CASE k = "name" -> lib_name
          [] k = "vector_count" -> vector_count
          [] k = "vector_dim" -> st.config.vector_dim
          [] k = "version" -> "1.0"
          [] OTHER -> 0]

\* savePretrainedVectors(lib_name, vectors, labels): the card afterwards.
\* The labels file is written only for a list of labels that is not empty.
savePretrainedVectors(st, card, lib_name, vectors, labels) ==
    [card EXCEPT
        !.lib_files[lib_name] =
            DataFile(<<Len(vectors),
                       IF vectors = <<>> THEN 0 ELSE Len(vectors[1])>>
                     \o VectorBytes(vectors)),
        !.lib_labels[lib_name] =
            IF labels # <<>> THEN TextFile(labels) ELSE @,
        !.lib_info[lib_name] =
            JsonFile(LibraryInfoDoc(st, lib_name, Len(vectors)))]

\* savePretrainedLib with `access_counts[i] >= 5` for its threshold.
savePretrainedLibFromFive(st, card, lib_name) ==
    LET exported ==
            Ascending({i \in 1..st.config.num_locations :
                          st.access_counts[i] >= 5})
    IN savePretrainedVectors(st, card, lib_name,
           [k \in 1..Len(exported) |->
               [j \in 1..st.config.vector_dim |->
                   IF st.memory[exported[k]][j] > 0 THEN 1 ELSE 0]],
           [k \in 1..Len(exported) |->
               [index |-> exported[k] - 1,
                access |-> st.access_counts[exported[k]]]])

\* savePretrainedLib(lib_name): the card afterwards.  The loop runs over
\* the locations in order and exports those accessed more than 5 times.
savePretrainedLib(st, card, lib_name) ==
    LET exported ==
            Ascending({i \in 1..st.config.num_locations :
                          st.access_counts[i] > 5})
    IN savePretrainedVectors(st, card, lib_name,
           [k \in 1..Len(exported) |->
               [j \in 1..st.config.vector_dim |->
                   IF st.memory[exported[k]][j] > 0 THEN 1 ELSE 0]],
           [k \in 1..Len(exported) |->
               [index |-> exported[k] - 1,
                access |-> st.access_counts[exported[k]]]])

SavePretrainedLib(lib_name) ==
    /\ AllWithin(sdm)
    /\ sd' = savePretrainedLib(sdm, sd, lib_name)
    /\ ret' = Ret("savePretrainedLib", <<>>, 0, 0, <<>>, FZero, TRUE)
              @@ [lib_name |-> lib_name]
    /\ UNCHANGED sdm

(***************************************************************************)
(* SpecExport: the host's Store, loaded at boot with access counts around  *)
(* the export threshold and counters of both signs, written and exported.  *)
(***************************************************************************)
\* State files of two locations of two counters: access counts 5 and 6
\* with counters 1, 0, -1, 3; 4 and 5 with 0, 2, -2, 0; 6 and 7 with
\* 1, 1, 0, -1.
ExportWords ==
    {<<2, 2, 5, 6, 1, 0, 65535, 3>>, <<2, 2, 4, 5, 0, 2, 65534, 0>>,
     <<2, 2, 6, 7, 1, 1, 0, 65535>>}

MaxExportWrites == 2

InitExport ==
    /\ sd \in {[BlankCard EXCEPT !.memory_file = DataFile(w)] :
                  w \in ExportWords}
    /\ sdm \in Boot(HostConfig, sd)
    /\ ret = Booted

NextExport ==
    \/ \E v \in BitVectors(2) :
          sdm.stats.total_writes < MaxExportWrites /\ Write(v, 1)
    \/ \E name \in LibNames : SavePretrainedLib(name)
    \/ LoadFromSD

SpecExport == InitExport /\ [][NextExport]_vars

(***************************************************************************)
(* The properties checked.  They are stated with the definitions below,    *)
(* which follow the specification's wording.                               *)
(***************************************************************************)
\* hamming(a, b) for vectors of one length.
Hamming(a, b) == Cardinality({j \in 1..Len(a) : a[j] # b[j]})

\* A(x): the locations whose address lies within the access radius of x.
Near(st, x) ==
    {i \in 1..st.config.num_locations :
        Hamming(st.addresses[i], x) <= st.config.access_radius}

\* A counter moved by `delta`, saturating at the extremes of int16_t.
Saturated(m, delta) ==
    IF m + delta > 32767 THEN 32767
    ELSE IF m + delta < -32768 THEN -32768
    ELSE m + delta

\* +strength where the bit is 1, -strength where it is 0.
Polarity(bit, strength) == IF bit = 1 THEN strength ELSE -strength

\* The step is a call of `op` on a vector of the Store's dimension.
Accepted(op) ==
    ret'.op = op /\ Len(ret'.vec) = sdm.config.vector_dim

\* C1: a write of a vector of length D changes exactly the locations within
\* R of it: their access counts grow by 1 and their counters move by
\* +strength or -strength, saturating; every other row and access count and
\* every address stays; the number of those locations is returned and
\* recorded as last_activated_locations.
C1_WriteContract ==
    [][Accepted("write") =>
        /\ \A i \in 1..sdm.config.num_locations :
              IF i \in Near(sdm, ret'.vec)
              THEN /\ sdm'.access_counts[i] = sdm.access_counts[i] + 1
                   /\ \A j \in 1..sdm.config.vector_dim :
                         sdm'.memory[i][j] =
                             Saturated(sdm.memory[i][j],
                                 Polarity(ret'.vec[j], ret'.strength))
              ELSE /\ sdm'.access_counts[i] = sdm.access_counts[i]
                   /\ sdm'.memory[i] = sdm.memory[i]
        /\ sdm'.addresses = sdm.addresses
        /\ ret'.count = Cardinality(Near(sdm, ret'.vec))
        /\ sdm'.stats.last_activated_locations =
               Cardinality(Near(sdm, ret'.vec))]_vars

\* C2: every counter stays within [-32768, 32767]; a write moves each
\* counter of an activated location to the saturated sum, so it clamps at
\* an extreme instead of wrapping, and a counter at the extreme of the
\* write's polarity stays there.
C2_CountersSaturate ==
    /\ [](\A i \in 1..Len(sdm.memory) : \A j \in 1..Len(sdm.memory[i]) :
            sdm.memory[i][j] \in -32768..32767)
    /\ [][Accepted("write") =>
            \A i \in Near(sdm, ret'.vec) : \A j \in 1..sdm.config.vector_dim :
                LET delta == Polarity(ret'.vec[j], ret'.strength)
                IN /\ sdm'.memory[i][j] = Saturated(sdm.memory[i][j], delta)
                   /\ (delta > 0 /\ sdm.memory[i][j] = 32767)
                         => sdm'.memory[i][j] = 32767
                   /\ (delta < 0 /\ sdm.memory[i][j] = -32768)
                         => sdm'.memory[i][j] = -32768]_vars

\* A write has found one counter of a location at each extreme and left
\* them there.
C2_WrittenAtExtremes ==
    /\ ret.op = "write" /\ ret.again /\ ret.count = 1
    /\ sdm.memory[1][1] = 32767
    /\ sdm.memory[1][2] = -32768
    /\ sdm.stats.total_writes > 32768

\* C3: on a Store whose access counts started at zero and that has only
\* been written, the sum of the access counts is the sum over the writes of
\* the locations each activated.  Here every write is of <<1, 0>>, so that
\* sum is the number of writes times the number of locations <<1, 0>>
\* activates.
C3_AccessCountSum ==
    SumSeq(sdm.access_counts) =
        sdm.stats.total_writes * Cardinality(Near(sdm, <<1, 0>>))

\* C4: a write or a read of a vector whose length is not D changes nothing
\* of the Store (counters, access counts, addresses, statistics); the write
\* returns 0, the read a zero vector of length D with confidence 0.
C4_WrongLengthRejected ==
    [][(ret'.op \in {"write", "read"}
            /\ Len(ret'.vec) # sdm.config.vector_dim) =>
        /\ sdm' = sdm
        /\ ret'.op = "write" => ret'.count = 0
        /\ ret'.op = "read" =>
              /\ ret'.out = [j \in 1..sdm.config.vector_dim |-> 0]
              /\ ret'.conf = FZero]_vars

\* A read of the wrong length was rejected by a Store that had accepted
\* writes and answered reads before.
C4_RejectedRead ==
    /\ ret.op = "read"
    /\ Len(ret.vec) # sdm.config.vector_dim
    /\ sdm.stats.total_writes > 0
    /\ sdm.stats.total_reads > 0

\* (D + 1)!, a common multiple of the denominators 1 + d of the weights.
RECURSIVE Factorial(_)
Factorial(n) == IF n = 0 THEN 1 ELSE n * Factorial(n - 1)

\* The distance-weighted sum of bit j over the locations near q, as an
\* exact integer: every term m / (1 + d) multiplied by (D + 1)!.
ExactSum(st, q, j) ==
    SumSeq([i \in 1..st.config.num_locations |->
              IF i \in Near(st, q)
              THEN st.memory[i][j]
                     * (Factorial(st.config.vector_dim + 1)
                          \div (1 + Hamming(st.addresses[i], q)))
              ELSE 0])

\* C5 (the output bits): a read of a vector of length D that activates a
\* location returns bit j = 1 exactly when the distance-weighted sum of the
\* counters of bit j over the activated locations is strictly positive, and
\* 0 when it is zero or negative.
C5_ReadThreshold ==
    (/\ ret.op = "read"
     /\ Len(ret.vec) = sdm.config.vector_dim
     /\ Near(sdm, ret.vec) # {})
        => \A j \in 1..sdm.config.vector_dim :
              ret.out[j] = IF ExactSum(sdm, ret.vec, j) > 0 THEN 1 ELSE 0

\* C6: a read of a vector of length D that has no address within distance
\* R returns the zero vector of length D and confidence 0, whatever the
\* counters hold and also for R = 0.
C6_NothingActivated ==
    (/\ ret.op = "read"
     /\ Len(ret.vec) = sdm.config.vector_dim
     /\ Near(sdm, ret.vec) = {})
        => /\ ret.out = [j \in 1..sdm.config.vector_dim |-> 0]
           /\ ret.conf = FZero

\* A Store of radius 0 that holds non-zero counters has read a vector that
\* equals none of its addresses.
C6_RadiusZeroMiss ==
    /\ ret.op = "read"
    /\ Len(ret.vec) = sdm.config.vector_dim
    /\ Near(sdm, ret.vec) = {}
    /\ sdm.config.access_radius = 0
    /\ \E i \in 1..Len(sdm.memory) : sdm.memory[i][1] # 0

\* The counters are all zero.
Empty(st) ==
    \A i \in 1..Len(st.memory) : \A j \in 1..Len(st.memory[i]) :
        st.memory[i][j] = 0

\* C7: on a Store whose counters are all zero, for every vector v of length
\* D that activates a location and every strength, write(v, strength)
\* followed by read(v) returns v with a confidence above 0.
C7_WriteThenRead ==
    Empty(sdm) =>
        \A v \in InputVectors, strength \in Strengths :
            (Len(v) = sdm.config.vector_dim /\ Near(sdm, v) # {}) =>
                \E r \in {SDMRead(SDMWrite(sdm, v, strength).st, v)} :
                    r.out = v /\ FLess(FZero, r.conf)

\* A Store booted on a card without a state file has been written once and
\* then read with the vector written, which activated a location, and has
\* answered that vector with a confidence above 0.
C7_RecalledAfterOneWrite ==
    /\ sd.memory_file.kind = "absent"
    /\ sdm.stats.total_writes = 1
    /\ ret.op = "read"
    /\ Len(ret.vec) = sdm.config.vector_dim
    /\ Near(sdm, ret.vec) # {}
    /\ \A i \in Near(sdm, ret.vec) : \A j \in 1..sdm.config.vector_dim :
          sdm.memory[i][j] # 0 /\ (sdm.memory[i][j] > 0 <=> ret.vec[j] = 1)
    /\ ret.out = ret.vec
    /\ FLess(FZero, ret.conf)

\* C8: a read that follows a read of the same query, with no other call
\* between them, returns the same vector and the same confidence.
C8_ReadTwice ==
    [][(ret.op = "read" /\ ret'.op = "read" /\ ret'.vec = ret.vec) =>
        (ret'.out = ret.out /\ ret'.conf = ret.conf)]_vars

\* A query that a location answered with a confidence above 0 has been
\* read twice in a row.
C8_ReadAgain ==
    /\ ret.op = "read"
    /\ ret.again
    /\ sdm.stats.total_reads >= 2
    /\ FLess(FZero, ret.conf)

\* C9: after initialize() and any calls of write, read, saveToSD,
\* loadFromSD and loadConfig, the counter matrix and the address table have
\* config.num_locations rows of config.vector_dim entries and access_counts
\* has config.num_locations entries.
C9_ShapeKept == Shaped(sdm)

\* The counters of the locations v activates are what writes of v alone
\* leave in them.
WrittenWith(st, v) ==
    /\ Near(st, v) # {}
    /\ \A i \in Near(st, v) : \A j \in 1..st.config.vector_dim :
          st.memory[i][j] # 0 /\ (st.memory[i][j] > 0 <=> v[j] = 1)

\* C10: when a Store that has written v and saved its state is constructed
\* again with the same Configuration and initialized from the card, which
\* loads the saved state, read(v) returns the vector and the confidence it
\* returned before, whatever addresses the initialization samples.
C10_RoundTrip ==
    [][(/\ ret'.op = "initialize"
        /\ Shaped(sdm)
        /\ sdm.config = HostConfig
        /\ sd.config_file = JsonFile(ConfigDoc(sdm.config))
        /\ sd.memory_file = DataFile(MemoryWords(sdm)))
       => \A v \in HostVectors :
             WrittenWith(sdm, v) =>
                \E before \in {SDMRead(sdm, v)}, after \in {SDMRead(sdm', v)} :
                    before.out = after.out /\ before.conf = after.conf]_vars

\* The Stores a saved state is loaded into: the Store itself, and the Store
\* after one more write or two.
Loaders(st) ==
    {st}
    \cup {SDMWrite(st, v, 1).st : v \in CardVectors}
    \cup {SDMWrite(SDMWrite(st, v, 1).st, w, 255).st :
             v \in CardVectors, w \in CardVectors}

\* C11: the state a Store saves, loaded into a Store of the same (N, D)
\* whatever that Store has written since, gives back the counters and the
\* access counts the saving Store had, value for value, and the load
\* succeeds.
C11_SaveThenLoad ==
    \A ld \in Loaders(sdm) :
        \E r \in {loadFromSD(ld, saveToSD(sdm, sd), 0, 0)} :
            /\ r.ok
            /\ r.st.memory = sdm.memory
            /\ r.st.access_counts = sdm.access_counts

\* A Store has saved its state, holding a negative counter, has written
\* again, and has then loaded the state back: it holds what the file holds
\* and has written more often than the saved statistics say.
C11_LoadedBack ==
    /\ ret.op = "loadFromSD" /\ ret.ok
    /\ sd.stats_file.kind = "json"
    /\ sd.stats_file.doc["total_writes"] > 0
    /\ sd.stats_file.doc["total_writes"] < sdm.stats.total_writes
    /\ sd.memory_file = DataFile(MemoryWords(sdm))
    /\ \E i \in 1..Len(sdm.memory) : sdm.memory[i][1] < 0

\* The state file holds a whole header, which differs from (n, d).
HeaderDiffers(card, n, d) ==
    /\ card.memory_file.kind = "data"
    /\ Len(card.memory_file.words) >= 2
    /\ \/ card.memory_file.words[1] # n
       \/ card.memory_file.words[2] # d

\* The access counts are all zero.
Unused(st) ==
    \A i \in 1..Len(st.access_counts) : st.access_counts[i] = 0

\* C12: a load of a state file whose header differs from the Store's
\* (num_locations, vector_dim) in either field returns failure and leaves
\* every counter and access count as it was; a Store initialized on such a
\* file has all counters and access counts zero.
C12_MismatchedHeaderRejected ==
    /\ [][(/\ ret'.op = "loadFromSD"
           /\ HeaderDiffers(sd, sdm'.config.num_locations,
                            sdm'.config.vector_dim))
          => /\ ~ret'.ok
             /\ sdm'.memory = sdm.memory
             /\ sdm'.access_counts = sdm.access_counts]_vars
    /\ []((/\ ret.op = "initialize"
           /\ HeaderDiffers(sd, sdm.config.num_locations,
                            sdm.config.vector_dim))
          => Empty(sdm) /\ Unused(sdm))

\* A Store that holds written counters has loaded its configuration file
\* and refused a state file whose header names its number of locations and
\* another dimension.
C12_RefusedOtherDimension ==
    /\ ret.op = "loadFromSD" /\ ~ret.ok
    /\ sd.config_file.kind = "json"
    /\ HeaderDiffers(sd, sdm.config.num_locations, sdm.config.vector_dim)
    /\ sd.memory_file.words[1] = sdm.config.num_locations
    /\ Len(sd.memory_file.words) > 2
    /\ ~Empty(sdm)

\* The state file holds the header (n, d) and fewer words than the access
\* counts and counters of n locations of d counters take.
CutShort(card, n, d) ==
    /\ card.memory_file.kind = "data"
    /\ Len(card.memory_file.words) >= 2
    /\ card.memory_file.words[1] = n
    /\ card.memory_file.words[2] = d
    /\ Len(card.memory_file.words) < 2 + n + n * d

\* C13: a load of a state file with a matching header that is cut short in
\* the access counts or the counters returns failure and leaves every
\* counter and access count as it was.
C13_TruncatedLoadFails ==
    [][(/\ ret'.op = "loadFromSD"
        /\ CutShort(sd, sdm'.config.num_locations, sdm'.config.vector_dim))
       => /\ ~ret'.ok
          /\ sdm'.memory = sdm.memory
          /\ sdm'.access_counts = sdm.access_counts]_vars

\* floor(D * s) for the value s of the sparsity field, computed exactly.
FloorOnes(cfg) ==
    LET m == cfg.sparsity[1]
        e == cfg.sparsity[2]
    IN IF e >= 0 THEN cfg.vector_dim * m * Pow2(e)
       ELSE (cfg.vector_dim * m) \div Pow2(-e)

\* C14: every address of a freshly initialized Store has length D and
\* exactly floor(D * sparsity) one-bits, and no write, read, save or load
\* changes an address.
C14_AddressesSparseAndFixed ==
    /\ [](ret.op = "initialize" =>
            \A i \in 1..sdm.config.num_locations :
                /\ Len(sdm.addresses[i]) = sdm.config.vector_dim
                /\ \A j \in 1..Len(sdm.addresses[i]) :
                      sdm.addresses[i][j] \in {0, 1}
                /\ Cardinality({j \in 1..Len(sdm.addresses[i]) :
                                   sdm.addresses[i][j] = 1})
                       = FloorOnes(sdm.config))
    /\ [][ret'.op \in {"write", "read", "saveToSD", "loadFromSD"} =>
            sdm'.addresses = sdm.addresses]_vars

\* The four fields of the configuration.
ConfigFields == {"vector_dim", "num_locations", "access_radius", "sparsity"}

\* C15: loadConfig on a configuration file that is absent, cannot be opened
\* or does not parse returns failure and leaves the four fields as they
\* were; on a file that parses it succeeds, every field the file holds
\* takes the file's value, every field it lacks keeps its value, and
\* nothing else of the Store changes, whatever other fields the file holds.
C15_LoadConfig ==
    [][ret'.op = "loadConfig" =>
        IF sd.config_file.kind # "json"
        THEN ~ret'.ok /\ sdm' = sdm
        ELSE /\ ret'.ok
             /\ DOMAIN sdm'.config = DOMAIN sdm.config
             /\ \A k \in ConfigFields :
                   sdm'.config[k] =
                       IF k \in DOMAIN sd.config_file.doc
                       THEN sd.config_file.doc[k]
                       ELSE sdm.config[k]
             /\ sdm' = [sdm EXCEPT !.config = sdm'.config]]_vars

\* loadConfig has read a file that holds vector_dim and unknown fields and
\* lacks num_locations: the Store has the file's vector_dim, which is not
\* the one it was constructed with, and the num_locations it was
\* constructed with, which is not the one the other files name.
C15_LoadedPartialFile ==
    /\ ret.op = "loadConfig" /\ ret.ok
    /\ sd.config_file.kind = "json"
    /\ "vector_dim" \in DOMAIN sd.config_file.doc
    /\ "comment" \in DOMAIN sd.config_file.doc
    /\ "num_locations" \notin DOMAIN sd.config_file.doc
    /\ sdm.config.vector_dim = DocValues["vector_dim"]
    /\ sdm.config.vector_dim # HostConfig.vector_dim
    /\ sdm.config.num_locations = HostConfig.num_locations
    /\ sdm.config.num_locations # DocValues["num_locations"]
    /\ Len(sdm.addresses[1]) = HostConfig.vector_dim

\* C16: a merge of a library whose vectors file is absent, or whose header
\* names a vector_dim other than the Store's D, returns failure and leaves
\* the Store, with its counters, access counts and total_writes, as it was.
C16_MergeRejected ==
    [][(/\ ret'.op = "mergeLibraryIntoSDM"
        /\ \E f \in {sd.lib_files[ret'.lib_name]} :
              \/ f.kind = "absent"
              \/ /\ f.kind = "data"
                 /\ Len(f.words) >= 2
                 /\ f.words[2] # sdm.config.vector_dim)
       => ~ret'.ok /\ sdm' = sdm]_vars

\* A Store that had merged a library before has refused one whose header
\* names another dimension.
C16_RefusedLibrary ==
    /\ ret.op = "mergeLibraryIntoSDM" /\ ~ret.ok
    /\ sd.lib_files[ret.lib_name].kind = "data"
    /\ Len(sd.lib_files[ret.lib_name].words) > 2
    /\ sd.lib_files[ret.lib_name].words[2] # sdm.config.vector_dim
    /\ sdm.stats.total_writes > 0
    /\ ret.reinforcement > 0

\* The V vectors of a vectors file with a whole header naming dimension d:
\* bytes the file lacks are 0.
LibraryVectors(words) ==
    [i \in 1..words[1] |->
        [j \in 1..words[2] |->
            IF 2 + (i - 1) * words[2] + j <= Len(words)
            THEN words[2 + (i - 1) * words[2] + j]
            ELSE 0]]

\* C17: a successful merge of a library of V vectors with reinforcement r
\* leaves the Store as V * r writes with strength 2 leave it, the k-th of
\* them of vector ((k - 1) div r) + 1 of the library; total_writes grows by
\* V * r.
C17_MergeReplays ==
    [][(/\ ret'.op = "mergeLibraryIntoSDM"
        /\ ret'.ok
        /\ Len(sd.lib_files[ret'.lib_name].words) >= 2)
       => \E lib \in {LibraryVectors(sd.lib_files[ret'.lib_name].words)} :
            \E r \in {ret'.reinforcement} :
               /\ sdm' = WriteEach(sdm,
                            [k \in 1..(Len(lib) * r) |->
                                lib[((k - 1) \div r) + 1]])
               /\ sdm'.stats.total_writes =
                      sdm.stats.total_writes + Len(lib) * r]_vars

\* loadPretrainedLib has merged the library of <<1, 1>> and <<0, 0>> into a
\* Store loaded with counters 32766: three writes of <<1, 1>> held the
\* counter at 32767 and three writes of <<0, 0>> took it to 32761.
C17_MergedAtExtreme ==
    /\ ret.op = "mergeLibraryIntoSDM" /\ ret.ok
    /\ ret.reinforcement = 3
    /\ sd.lib_files[ret.lib_name].words = <<2, 2, 1, 1, 0, 0>>
    /\ sd.memory_file.kind = "data"
    /\ sdm.stats.total_writes = 6
    /\ sdm.memory[1][1] = 32761
    /\ sdm.access_counts[1] = 6

\* a * 2^23 for a float a that is a multiple of 2^-23 below 2^7.
Fixed(a) == a[1] * Pow2(a[2] + 23)

\* C18: for D >= 2, min < max and x in [min, max], the value decoded from
\* the encoding of x differs from x by at most (max - min) / (D - 1); and
\* every bit set in the encoding of x is set in the encoding of every
\* y >= x of the range.
C18_ThermometerRoundTrip ==
    /\ ret.op = "decodeFloat" =>
          Abs(Fixed(ret.decoded) - Fixed(ret.value))
                * (sdm.config.vector_dim - 1)
             <= Fixed(ret.max_val) - Fixed(ret.min_val)
    /\ ret.op = "encodeFloat" =>
          \A y \in ScalarValues :
             (Within(y, <<ret.min_val, ret.max_val>>)
                 /\ ~FLess(y, ret.value))
             => \A i \in 1..Len(ret.out) :
                   ret.out[i] <=
                       encodeFloat(sdm, y, ret.min_val, ret.max_val)[i]

\* a * 2^24 for a float a that is a multiple of 2^-24 of magnitude at most 2.
Fixed24(a) == a[1] * Pow2(a[2] + 24)

\* C19: for every D and every sequence of L <= 32 elements in [-1, 1], the
\* sequence decoded from its encoding has exactly 32 elements, and each of
\* the first L is a number that differs from the element encoded by at
\* most 2 / (D / 32), that is 64 / D.
C19_SequenceRoundTrip ==
    (ret.op = "decodeSequence" /\ Len(ret.sequence) <= 32) =>
        /\ Len(ret.decoded) = 32
        /\ \A k \in 1..Len(ret.sequence) :
              /\ ret.decoded[k] # NaN
              /\ Abs(Fixed24(ret.decoded[k]) - Fixed24(ret.sequence[k]))
                    <= Pow2(30) \div sdm.config.vector_dim


\* The rows of the log a finished sweep has written.
SweepRows ==
    IF ret.op = "runQuickBenchmark"
    THEN sd.benchmark_results_file.rows
    ELSE sd.comprehensive_file.rows

\* C20: when a quick or comprehensive sweep finishes, the configuration in
\* the optimal-config file is the (D, N, R) of a row of the sweep's log
\* whose match score is the maximum over all the rows, also when no point
\* was tested.
C20_SweepSavesBestTested ==
    (ret.op \in {"runQuickBenchmark", "runComprehensiveBenchmark"}
        /\ ret.ok) =>
        \E i \in 1..Len(SweepRows) :
            /\ SweepRows[i].vector_dim =
                   sd.optimal_config_file.doc["vector_dim"]
            /\ SweepRows[i].num_locations =
                   sd.optimal_config_file.doc["num_locations"]
            /\ SweepRows[i].access_radius =
                   sd.optimal_config_file.doc["access_radius"]
            /\ \A j \in 1..Len(SweepRows) :
                   SweepRows[j].match_ratio <= SweepRows[i].match_ratio


\* C21: findOptimalConfig on an optimal-config file that exists and parses
\* returns, for each of the four fields the file holds, the file's value;
\* on a file that is absent or does not parse it returns (16, 50, 3, 0.03)
\* and leaves a file that holds these four values; and a call that follows
\* a call with no change of the file between them returns the same
\* configuration.
C21_FindOptimalConfig ==
    [][ret'.op = "findOptimalConfig" =>
        /\ IF sd.optimal_config_file.kind = "json"
           THEN \A k \in ConfigFields \cap DOMAIN sd.optimal_config_file.doc :
                   ret'.config[k] = sd.optimal_config_file.doc[k]
           ELSE /\ ret'.config = SafeConfig
                /\ sd'.optimal_config_file.kind = "json"
                /\ \A k \in ConfigFields :
                      /\ k \in DOMAIN sd'.optimal_config_file.doc
                      /\ sd'.optimal_config_file.doc[k] = SafeConfig[k]
        /\ ret.op = "findOptimalConfig" => ret'.config = ret.config
        /\ findOptimalConfig(sd').config = ret'.config]_vars

\* findOptimalConfig has fallen back: it has returned the safe
\* configuration and the card holds the file saveOptimalConfig writes for
\* it, which is none of the files the card started with or was given.
C21_FellBackAndSaved ==
    /\ ret.op = "findOptimalConfig"
    /\ ret.config = SafeConfig
    /\ sd.optimal_config_file = JsonFile(OptimalDoc(SafeConfig))
    /\ sd.optimal_config_file \notin OptimalFiles

\* C22: after a comprehensive sweep, every grid point that was tested (a
\* Store was instantiated for it, and its row logged) had a free heap that
\* exceeded its footprint N*D*3 + 2*N by at least 100000 bytes.  (The free
\* heap of ComprehensiveHeaps is the same at the check before a point and
\* in the row logged after it.)
C22_TestedOnlyWithHeadroom ==
    ret.op = "runComprehensiveBenchmark" =>
        \A i \in 1..Len(sd.comprehensive_file.rows) :
            LET row == sd.comprehensive_file.rows[i]
            IN /\ row.memory_usage
                     = row.num_locations * row.vector_dim * 3
                           + 2 * row.num_locations
               /\ row.free_heap - row.memory_usage >= 100000

\* C23: a quick sweep closes its log and returns, and the test after which
\* its memory check found less than 50000 bytes free is the last one it
\* ran: the log has no row after that test's row.
C23_LowHeapEndsSweep ==
    ret.op = "runQuickBenchmark" =>
        /\ ret.ok
        /\ sd.benchmark_results_file.kind = "csv"
        /\ \A k \in 1..Len(sd.benchmark_results_file.rows) :
              ret.heap[k] < 50000 =>
                  Len(sd.benchmark_results_file.rows) = k

\* C24: an initialize() called with less free heap than the address and
\* counter matrices and the access counts of its Store need returns, and
\* returns failure.
C24_InitializeReportsFailure ==
    (/\ ret.op = "initialize"
     /\ "free_heap" \in DOMAIN ret
     /\ ret.free_heap < AllocationSize(sdm.config)) =>
        ret.returned /\ ~ret.ok

\* C25: a read with a query of the Store's dimension adds exactly 1 to
\* total_reads and leaves last_confidence equal to the confidence it
\* returned; and no call lowers total_writes or total_reads.
C25_ReadCounted ==
    [][/\ (ret'.op = "read" /\ Len(ret'.vec) = sdm.config.vector_dim) =>
            /\ sdm'.stats.total_reads = sdm.stats.total_reads + 1
            /\ sdm'.stats.last_confidence = ret'.conf
       /\ ret'.op \in {"write", "read", "saveToSD", "loadFromSD"} =>
            /\ sdm'.stats.total_writes >= sdm.stats.total_writes
            /\ sdm'.stats.total_reads >= sdm.stats.total_reads]_vars

\* C26: after a sweep that tested at least one grid point, the
\* configuration its last test Store had (the one that Store saved when it
\* was destroyed) has the vector_dim, num_locations and access_radius of
\* the last grid point tested.
C26_TestStoreHasGridConfig ==
    (/\ ret.op \in {"runQuickBenchmark", "runComprehensiveBenchmark"}
     /\ SweepRows # <<>>) =>
        /\ sd.config_file.kind = "json"
        /\ \A k \in {"vector_dim", "num_locations", "access_radius"} :
              sd.config_file.doc[k] = SweepRows[Len(SweepRows)][k]

\* C27: the test Store of a grid point starts with counters and access
\* counts of zero.  Every write adds at most 1 to an access count, so at
\* its teardown no access count of a test Store exceeds the number of
\* writes it made: after a sweep that tested a grid point, every access
\* count in the state file the last test Store saved is at most the
\* total_writes in the statistics file it saved.
C27_TestStoreStartsFresh ==
    (/\ ret.op \in {"runQuickBenchmark", "runComprehensiveBenchmark"}
     /\ SweepRows # <<>>) =>
        /\ sd.memory_file.kind = "data"
        /\ sd.stats_file.kind = "json"
        /\ \A i \in 1..sd.memory_file.words[1] :
              sd.memory_file.words[2 + i]
                  <= sd.stats_file.doc["total_writes"]

\* C28: a loadFromSD that returns false leaves the Store as it was: its
\* configuration, its counters and its access counts.
C28_FailedLoadChangesNothing ==
    [][(ret'.op = "loadFromSD" /\ ~ret'.ok) =>
          /\ sdm'.config = sdm.config
          /\ sdm'.memory = sdm.memory
          /\ sdm'.access_counts = sdm.access_counts]_vars

\* The locations of `st` accessed more than 5 times.
Frequent(st) ==
    {i \in 1..st.config.num_locations : st.access_counts[i] > 5}

\* C29: savePretrainedLib leaves the Store as it was and writes a vectors
\* file that holds one pattern per location accessed more than 5 times and
\* no other pattern, the patterns in increasing order of their locations
\* and each with bit j set exactly where the location's counter j is above
\* zero; when a pattern is exported, the labels file holds one label per
\* pattern, the k-th naming the location and the access count of the k-th
\* pattern.
C29_ExportsFrequentLocations ==
    [][ret'.op = "savePretrainedLib" =>
        /\ sdm' = sdm
        /\ \E f \in {sd'.lib_files[ret'.lib_name]} :
             \E loc \in [1..Cardinality(Frequent(sdm)) -> Frequent(sdm)] :
                /\ \A k \in DOMAIN loc : \A m \in DOMAIN loc :
                      k < m => loc[k] < loc[m]
                /\ f.kind = "data"
                /\ f.words[1] = Cardinality(Frequent(sdm))
                /\ Len(f.words)
                      = 2 + Cardinality(Frequent(sdm)) * sdm.config.vector_dim
                /\ \A k \in DOMAIN loc : \A j \in 1..sdm.config.vector_dim :
                      f.words[2 + (k - 1) * sdm.config.vector_dim + j]
                          = (IF sdm.memory[loc[k]][j] > 0 THEN 1 ELSE 0)
                /\ Frequent(sdm) # {} =>
                      \E l \in {sd'.lib_labels[ret'.lib_name]} :
                          /\ l.kind = "text"
                          /\ Len(l.lines) = Cardinality(Frequent(sdm))
                          /\ \A k \in DOMAIN loc :
                                /\ l.lines[k].index = loc[k] - 1
                                /\ l.lines[k].access
                                       = sdm.access_counts[loc[k]]]_vars

\* An export has written one pattern, for the second location, which holds
\* a positive and a negative counter, and none for the first, which was
\* accessed exactly 5 times.
C29_ExportedAboveFive ==
    /\ ret.op = "savePretrainedLib"
    /\ sdm.access_counts[1] = 5
    /\ sdm.access_counts[2] > 5
    /\ \E j \in 1..2 : sdm.memory[2][j] > 0
    /\ \E j \in 1..2 : sdm.memory[2][j] < 0
    /\ sd.lib_files[ret.lib_name].words[1] = 1
    /\ sd.lib_labels[ret.lib_name].kind = "text"
    /\ sd.lib_labels[ret.lib_name].lines[1].index = 1

\* C30: a quick or comprehensive sweep leaves the configuration file, the
\* state file and the statistics file of the card as they were before it.
C30_SweepKeepsStoreFiles ==
    [][ret'.op \in {"runQuickBenchmark", "runComprehensiveBenchmark"} =>
          /\ sd'.config_file = sd.config_file
          /\ sd'.memory_file = sd.memory_file
          /\ sd'.stats_file = sd.stats_file]_vars
=============================================================================
